---- MODULE Spec2Model ----
(***************************************************************************)
(* A state-machine model of the Sikhsha Sathi institute-management web     *)
(* application (src/main.py): the document collections, the GridFS blob    *)
(* store, the per-browser session, and one action per request handler.     *)
(***************************************************************************)
EXTENDS Integers, Sequences, FiniteSets, TLC

VARIABLES
    users,        \* users_collection, in insertion order
    institutes,   \* institutes_collection, in insertion order
    session,      \* request.session["user"] of every browser
    students,     \* db["students"]
    faculties,    \* db["faculties"]
    courses,      \* db["courses"]
    payments,     \* db["payments"]
    tests,        \* db["tests"]
    attendance,   \* db["attendance"]
    materials,    \* db["materials"]
    events,       \* db["events"]
    files,        \* GridFS "materials_files": file_id -> length
    nextId,       \* the next ObjectId the driver hands out
    req,          \* the request handled last, with its response
    proc          \* the POST /signup requests in flight (interleaved runs)

vars == <<users, institutes, session, students, faculties, courses, payments,
          tests, attendance, materials, events, files, nextId, req, proc>>

db == <<users, institutes, students, faculties, courses, payments, tests,
        attendance, materials, events, files>>

----------------------------------------------------------------------------
(* Bounds of the model *)

NEmails == 3
MaxInstitutes == 2
NProcs == 3
MaxDocs == 2

Emails == 1 .. NEmails
Roles == {"platform_admin", "institute_admin"}
Clients == {"c1", "c2", "c3"}

----------------------------------------------------------------------------
(* Values *)

NoUser == [email |-> 0, role |-> "none", profile_complete |-> FALSE]

SessionUser(u) ==
    [email |-> u.email, role |-> u.role, profile_complete |-> u.profile_complete]

Req(handler, c, args, resp) ==
    [handler |-> handler, client |-> c, args |-> args, resp |-> resp]

NoReq == Req("none", "none", <<>>, [kind |-> "none", to |-> "", error |-> ""])

RedirectResponse(url) == [kind |-> "redirect", to |-> url, error |-> ""]
TemplateResponse(name, error) == [kind |-> "template", to |-> name, error |-> error]
\* raise HTTPException(status_code, detail); the status is kept as text
HTTPException(status, detail) == [kind |-> "exception", to |-> status, error |-> detail]

Range(s) == {s[i] : i \in DOMAIN s}

\* bcrypt.hashpw / bcrypt.checkpw: a hash verifies exactly the password hashed
hashpw(password) == <<"bcrypt", password>>
checkpw(password, hashed) == hashed = hashpw(password)

\* collection.find_one(filter) on a collection kept in insertion order: of the
\* positions `hits` that match the filter the first, 0 when there is none
FirstIndex(hits) ==
    IF hits = {} THEN 0 ELSE CHOOSE i \in hits : \A j \in hits : i <= j

\* collection.find(filter).limit(n): the first n of the matching positions
Limit(hits, n) == {i \in hits : Cardinality({j \in hits : j < i}) < n}

\* find_one({"email": email}) that never matches
UserByEmail_Miss(email) == 0

UserByEmail(email) == FirstIndex({i \in DOMAIN users : users[i].email = email})

count_admins == Cardinality({i \in DOMAIN users : users[i].role = "platform_admin"})

\* the profile status ignored
RoleRedirect_IgnoreProfile(u) ==
    IF u.role = "platform_admin" THEN RedirectResponse("/admin-dashboard")
    ELSE IF u.role = "institute_admin" THEN RedirectResponse("/institute-dashboard")
    ELSE RedirectResponse("/")

\* the redirect both login paths and index() compute from role and profile status
RoleRedirect(u) ==
    IF u.role = "platform_admin" THEN RedirectResponse("/admin-dashboard")
    ELSE IF u.role = "institute_admin"
         THEN IF ~u.profile_complete THEN RedirectResponse("/complete-profile")
              ELSE RedirectResponse("/institute-dashboard")
         ELSE RedirectResponse("/")

----------------------------------------------------------------------------
(* Authentication handlers *)

SignupBlocked_Lax(role) == role = "platform_admin" /\ count_admins > 2

\* signup_user: the platform_admin cap
SignupBlocked(role) == role = "platform_admin" /\ count_admins >= 2

UnchangedData ==
    UNCHANGED <<students, faculties, courses, payments, tests, attendance,
                materials, events, files, nextId, proc>>

signup_user(c, role, email, password) ==
    /\ UnchangedData
    /\ UNCHANGED institutes
    /\ IF SignupBlocked(role)
       THEN /\ req' = Req("signup_user", c, [role |-> role, email |-> email], TemplateResponse("index.html",
                          "Signup blocked: Only platform admins are allowed to access!"))
            /\ UNCHANGED <<users, session>>
       ELSE IF UserByEmail(email) # 0
       THEN /\ req' = Req("signup_user", c, [role |-> role, email |-> email],
                          TemplateResponse("index.html", "User already exists!"))
            /\ UNCHANGED <<users, session>>
       ELSE /\ users' = Append(users,
                    [email |-> email, role |-> role,
                     password |-> hashpw(password),
                     auth_type |-> [str |-> TRUE, list |-> <<"manual">>],
                     profile_complete |-> FALSE])
            /\ session' = [session EXCEPT ![c] =
                    [email |-> email, role |-> role, profile_complete |-> FALSE]]
            /\ req' = Req("signup_user", c, [role |-> role, email |-> email],
                    IF role = "platform_admin" THEN RedirectResponse("/admin-dashboard")
                    ELSE RedirectResponse("/complete-profile"))

\* the limit(2) test left out
AdminAllowed_Any(u) == TRUE

\* login_manual / auth_callback: only the first two platform_admin documents may log in
AdminAllowed(u) ==
    u.role = "platform_admin" =>
        \E i \in Limit({k \in DOMAIN users : users[k].role = "platform_admin"}, 2) :
            users[i].email = u.email

login_manual(c, email, password, role) ==
    LET i == FirstIndex({k \in DOMAIN users :
                            /\ users[k].email = email
                            /\ "manual" \in Range(users[k].auth_type.list)
                            /\ users[k].role = role})
    IN
    /\ UnchangedData
    /\ UNCHANGED <<users, institutes>>
    /\ IF i = 0
       THEN /\ req' = Req("login_manual", c, [role |-> role, email |-> email, password |-> password], TemplateResponse("index.html",
                          "No manual account found with this email."))
            /\ UNCHANGED session
       ELSE IF ~checkpw(password, users[i].password)
       THEN /\ req' = Req("login_manual", c, [role |-> role, email |-> email, password |-> password],
                          TemplateResponse("index.html", "Invalid email or password."))
            /\ UNCHANGED session
       ELSE IF ~AdminAllowed(users[i])
       THEN /\ req' = Req("login_manual", c, [role |-> role, email |-> email, password |-> password], TemplateResponse("index.html",
                          "Access denied: Only platform admins allowed to access."))
            /\ UNCHANGED session
       ELSE /\ session' = [session EXCEPT ![c] = SessionUser(users[i])]
            /\ req' = Req("login_manual", c, [role |-> role, email |-> email, password |-> password], RoleRedirect(users[i]))

\* "google" appended without the membership test
auth_callback_AlwaysAppend(c, email) ==
    LET i == UserByEmail(email)
        auth_types == IF users[i].auth_type.str
                      THEN <<users[i].auth_type.list[1]>>
                      ELSE users[i].auth_type.list
        new_user == [email |-> email, role |-> "institute_admin",
                     auth_type |-> [str |-> FALSE, list |-> <<"google">>],
                     profile_complete |-> FALSE]
        stored == IF i = 0 THEN Append(users, new_user)
                  ELSE [users EXCEPT ![i].auth_type =
                            [str |-> FALSE, list |-> Append(auth_types, "google")]]
        user == IF i = 0 THEN new_user ELSE stored[i]
        \* the limit(2) query runs on the collection as just written
        allowed == user.role = "platform_admin" =>
                     \E j \in {k \in DOMAIN stored :
                                 /\ stored[k].role = "platform_admin"
                                 /\ Cardinality({m \in 1 .. (k - 1) :
                                        stored[m].role = "platform_admin"}) < 2} :
                        stored[j].email = user.email
    IN
    /\ UnchangedData
    /\ UNCHANGED institutes
    /\ users' = stored
    /\ IF ~allowed
       THEN /\ req' = Req("auth_callback", c, [email |-> email], TemplateResponse("index.html",
                          "Access denied: Only 2 platform admins allowed."))
            /\ UNCHANGED session
       ELSE /\ session' = [session EXCEPT ![c] = SessionUser(user)]
            /\ req' = Req("auth_callback", c, [email |-> email], RoleRedirect(user))

\* auth_callback, with the e-mail address the identity provider vouches for
auth_callback(c, email) ==
    LET i == UserByEmail(email)
        auth_types == IF users[i].auth_type.str
                      THEN <<users[i].auth_type.list[1]>>
                      ELSE users[i].auth_type.list
        new_user == [email |-> email, role |-> "institute_admin",
                     auth_type |-> [str |-> FALSE, list |-> <<"google">>],
                     profile_complete |-> FALSE]
        stored == IF i = 0 THEN Append(users, new_user)
                  ELSE IF "google" \notin Range(auth_types)
                  THEN [users EXCEPT ![i].auth_type =
                            [str |-> FALSE, list |-> Append(auth_types, "google")]]
                  ELSE users
        user == IF i = 0 THEN new_user ELSE stored[i]
        \* the limit(2) query runs on the collection as just written
        allowed == user.role = "platform_admin" =>
                     \E j \in {k \in DOMAIN stored :
                                 /\ stored[k].role = "platform_admin"
                                 /\ Cardinality({m \in 1 .. (k - 1) :
                                        stored[m].role = "platform_admin"}) < 2} :
                        stored[j].email = user.email
    IN
    /\ UnchangedData
    /\ UNCHANGED institutes
    /\ users' = stored
    /\ IF ~allowed
       THEN /\ req' = Req("auth_callback", c, [email |-> email], TemplateResponse("index.html",
                          "Access denied: Only 2 platform admins allowed."))
            /\ UNCHANGED session
       ELSE /\ session' = [session EXCEPT ![c] = SessionUser(user)]
            /\ req' = Req("auth_callback", c, [email |-> email], RoleRedirect(user))

\* request.session.pop("user", None) left out
logout_KeepUser(c) ==
    /\ UnchangedData
    /\ UNCHANGED <<users, institutes, session>>
    /\ req' = Req("logout", c, <<>>, RedirectResponse("/"))

logout(c) ==
    /\ UnchangedData
    /\ UNCHANGED <<users, institutes>>
    /\ session' = [session EXCEPT ![c] = NoUser]
    /\ req' = Req("logout", c, <<>>, RedirectResponse("/"))

\* request.session["user"]["profile_complete"] = True left out
complete_profile_StaleSession(c) ==
    LET user == session[c]
    IN
    /\ UnchangedData
    /\ IF user = NoUser \/ user.role # "institute_admin"
       THEN /\ req' = Req("complete_profile", c, <<>>, RedirectResponse("/"))
            /\ UNCHANGED <<users, institutes, session>>
       ELSE /\ Len(institutes) < MaxInstitutes
            /\ institutes' = Append(institutes,
                    [id |-> Len(institutes) + 1, user_email |-> user.email])
            /\ LET i == UserByEmail(user.email)
               IN  users' = IF i = 0 THEN users
                            ELSE [users EXCEPT ![i].profile_complete = TRUE]
            /\ UNCHANGED session
            /\ req' = Req("complete_profile", c, <<>>, RedirectResponse("/institute-dashboard"))

complete_profile(c) ==
    LET user == session[c]
    IN
    /\ UnchangedData
    /\ IF user = NoUser \/ user.role # "institute_admin"
       THEN /\ req' = Req("complete_profile", c, <<>>, RedirectResponse("/"))
            /\ UNCHANGED <<users, institutes, session>>
       ELSE /\ Len(institutes) < MaxInstitutes
            /\ institutes' = Append(institutes,
                    [id |-> Len(institutes) + 1, user_email |-> user.email])
            \* update_one: the first user document with this e-mail
            /\ LET i == UserByEmail(user.email)
               IN  users' = IF i = 0 THEN users
                            ELSE [users EXCEPT ![i].profile_complete = TRUE]
            /\ session' = [session EXCEPT ![c].profile_complete = TRUE]
            /\ req' = Req("complete_profile", c, <<>>, RedirectResponse("/institute-dashboard"))

index(c) ==
    LET user == session[c]
    IN
    /\ UnchangedData
    /\ UNCHANGED <<users, institutes, session>>
    /\ req' = Req("index", c, <<>>,
            IF user # NoUser /\ user.role \in Roles THEN RoleRedirect(user)
            ELSE TemplateResponse("index.html", ""))

----------------------------------------------------------------------------
(* Helpers shared by the institute-admin handlers *)

\* a handler that answers without writing anything
Reply(handler, c, args, resp) ==
    /\ req' = Req(handler, c, args, resp)
    /\ UNCHANGED <<users, institutes, session, students, faculties, courses,
                   payments, tests, attendance, materials, events, files,
                   nextId, proc>>

\* `not user or user["role"] != "institute_admin"`
NotInstituteAdmin(c) == session[c] = NoUser \/ session[c].role # "institute_admin"

\* institutes_collection.find_one({"user_email": user["email"]}): its position, or 0
InstituteIndex(c) ==
    FirstIndex({i \in DOMAIN institutes : institutes[i].user_email = session[c].email})

\* str(institute["_id"])
InstituteId(c) == institutes[InstituteIndex(c)].id

\* find_one({"_id": ObjectId(id)}) on a collection
DocsById(coll, id) == {d \in coll : d.id = id}

OwnDocs_AnyTenant(coll, id, institute_id) == DocsById(coll, id)

\* find_one({"_id": ObjectId(id), "institute_id": institute_id}) on a collection
OwnDocs(coll, id, institute_id) ==
    {d \in coll : d.id = id /\ d.institute_id = institute_id}

TheDoc(docs) == CHOOSE d \in docs : TRUE

----------------------------------------------------------------------------
(* Students *)

StudentFields_Paid(course_doc, institute_id) ==
    [id |-> nextId,
     course_id |-> course_doc.id,
     course_name |-> course_doc.name,
     payment_status |-> "Paid",
     institute_id |-> institute_id]

\* the document add_student inserts
StudentFields(course_doc, institute_id) ==
    [id |-> nextId,
     course_id |-> course_doc.id,
     course_name |-> course_doc.name,
     payment_status |-> "Pending",
     institute_id |-> institute_id]

add_student(c, course_id) ==
    LET args == [course_id |-> course_id]
    IN
    IF NotInstituteAdmin(c)
    THEN Reply("add_student", c, args, RedirectResponse("/"))
    ELSE IF InstituteIndex(c) = 0
    THEN Reply("add_student", c, args, HTTPException("400", "Institute not found"))
    ELSE IF OwnDocs(courses, course_id, InstituteId(c)) = {}
    THEN Reply("add_student", c, args, HTTPException("400", "Selected course not found"))
    ELSE LET course_doc == TheDoc(OwnDocs(courses, course_id, InstituteId(c)))
         IN
         /\ students' = students \cup {StudentFields(course_doc, InstituteId(c))}
         /\ nextId' = nextId + 1
         /\ req' = Req("add_student", c, args, RedirectResponse("/students"))
         /\ UNCHANGED <<users, institutes, session, faculties, courses, payments,
                        tests, attendance, materials, events, files, proc>>

update_student(c, student_id, course_id, payment_status) ==
    LET args == [student_id |-> student_id, course_id |-> course_id,
                 payment_status |-> payment_status]
    IN
    IF NotInstituteAdmin(c)
    THEN Reply("update_student", c, args, RedirectResponse("/"))
    ELSE IF InstituteIndex(c) = 0
    THEN Reply("update_student", c, args, HTTPException("400", "Institute not found"))
    ELSE IF OwnDocs(courses, course_id, InstituteId(c)) = {}
    THEN Reply("update_student", c, args, HTTPException("400", "Selected course not found"))
    ELSE LET course_doc == TheDoc(OwnDocs(courses, course_id, InstituteId(c)))
             matched == OwnDocs(students, student_id, InstituteId(c))
             updated == {[d EXCEPT !.course_id = course_doc.id,
                                   !.course_name = course_doc.name,
                                   !.payment_status = payment_status] : d \in matched}
         IN
         \* result.modified_count == 0: nothing matched, or nothing differed
         IF matched = updated
         THEN Reply("update_student", c, args,
                    HTTPException("404", "Student not found or not updated"))
         ELSE /\ students' = (students \ matched) \cup updated
              /\ req' = Req("update_student", c, args, RedirectResponse("/students/{id}"))
              /\ UNCHANGED <<users, institutes, session, faculties, courses, payments,
                             tests, attendance, materials, events, files, nextId, proc>>

delete_student_KeepPayments(c, student_id) ==
    LET args == [student_id |-> student_id]
    IN
    IF NotInstituteAdmin(c)
    THEN Reply("delete_student", c, args, RedirectResponse("/"))
    ELSE IF InstituteIndex(c) = 0
    THEN Reply("delete_student", c, args, HTTPException("400", "Institute not found"))
    ELSE IF OwnDocs(students, student_id, InstituteId(c)) = {}
    THEN Reply("delete_student", c, args, HTTPException("404", "Student not found"))
    ELSE /\ students' = students \ OwnDocs(students, student_id, InstituteId(c))
         /\ req' = Req("delete_student", c, args, RedirectResponse("/students"))
         /\ UNCHANGED <<users, institutes, session, faculties, courses, payments,
                        tests, attendance, materials, events, files, nextId, proc>>

delete_student(c, student_id) ==
    LET args == [student_id |-> student_id]
    IN
    IF NotInstituteAdmin(c)
    THEN Reply("delete_student", c, args, RedirectResponse("/"))
    ELSE IF InstituteIndex(c) = 0
    THEN Reply("delete_student", c, args, HTTPException("400", "Institute not found"))
    ELSE IF OwnDocs(students, student_id, InstituteId(c)) = {}
    THEN Reply("delete_student", c, args, HTTPException("404", "Student not found"))
    ELSE /\ students' = students \ OwnDocs(students, student_id, InstituteId(c))
         /\ payments' = {p \in payments : p.student_id # student_id}
         /\ req' = Req("delete_student", c, args, RedirectResponse("/students"))
         /\ UNCHANGED <<users, institutes, session, faculties, courses, tests,
                        attendance, materials, events, files, nextId, proc>>

----------------------------------------------------------------------------
(* Faculty *)

\* the names of the caller's own courses among the batch ids of the form
BatchNames(batch, institute_id) ==
    {d.name : d \in {x \in courses : x.id \in batch /\ x.institute_id = institute_id}}

add_faculty(c, name, batch) ==
    LET args == [name |-> name, batch |-> batch]
    IN
    IF NotInstituteAdmin(c)
    THEN Reply("add_faculty", c, args, RedirectResponse("/"))
    ELSE IF InstituteIndex(c) = 0
    THEN Reply("add_faculty", c, args, HTTPException("400", "Institute not found"))
    ELSE /\ faculties' = faculties \cup
                {[id |-> nextId, institute_id |-> InstituteId(c), name |-> name,
                  batch |-> BatchNames(batch, InstituteId(c))]}
         /\ nextId' = nextId + 1
         /\ req' = Req("add_faculty", c, args, RedirectResponse("/faculty"))
         /\ UNCHANGED <<users, institutes, session, students, courses, payments,
                        tests, attendance, materials, events, files, proc>>

update_faculty(c, faculty_id, name, batch) ==
    LET args == [faculty_id |-> faculty_id, name |-> name, batch |-> batch]
    IN
    IF NotInstituteAdmin(c)
    THEN Reply("update_faculty", c, args, RedirectResponse("/"))
    ELSE IF InstituteIndex(c) = 0
    THEN Reply("update_faculty", c, args, HTTPException("400", "Institute not found"))
    ELSE IF name = "" \/ batch = {}
    THEN Reply("update_faculty", c, args, TemplateResponse("edit_faculty.html",
                 "Please fill all required fields and select at least one batch."))
    ELSE LET matched == OwnDocs(faculties, faculty_id, InstituteId(c))
             updated == {[d EXCEPT !.name = name,
                                   !.batch = BatchNames(batch, InstituteId(c))] :
                         d \in matched}
         IN
         /\ faculties' = (faculties \ matched) \cup updated
         /\ req' = Req("update_faculty", c, args, RedirectResponse("/faculty"))
         /\ UNCHANGED <<users, institutes, session, students, courses, payments,
                        tests, attendance, materials, events, files, nextId, proc>>

\* POST /faculty/delete/{faculty_id}; the id arrives in the parameter course_id
delete_faculty(c, course_id) ==
    LET args == [course_id |-> course_id]
    IN
    IF NotInstituteAdmin(c)
    THEN Reply("delete_faculty", c, args, RedirectResponse("/"))
    ELSE IF InstituteIndex(c) = 0
    THEN Reply("delete_faculty", c, args, HTTPException("400", "Institute not found"))
    ELSE IF OwnDocs(faculties, course_id, InstituteId(c)) = {}
    THEN Reply("delete_faculty", c, args, HTTPException("404", "Course not found"))
    ELSE /\ faculties' = faculties \ OwnDocs(faculties, course_id, InstituteId(c))
         /\ req' = Req("delete_faculty", c, args, RedirectResponse("/faculty"))
         /\ UNCHANGED <<users, institutes, session, students, courses, payments,
                        tests, attendance, materials, events, files, nextId, proc>>

----------------------------------------------------------------------------
(* Courses *)

\* assigned_faculty_given is FALSE when the form carries no assigned_faculty:
\* the list comprehension over None raises before anything is written
add_courses(c, name, fees, assigned_faculty_given) ==
    LET args == [name |-> name, fees |-> fees,
                 assigned_faculty_given |-> assigned_faculty_given]
    IN
    IF NotInstituteAdmin(c)
    THEN Reply("add_courses", c, args, RedirectResponse("/"))
    ELSE IF InstituteIndex(c) = 0
    THEN Reply("add_courses", c, args,
               TemplateResponse("courses.html", "No institute profile found!"))
    ELSE IF ~assigned_faculty_given
    THEN Reply("add_courses", c, args, HTTPException("500", "TypeError"))
    ELSE /\ courses' = courses \cup
                {[id |-> nextId, institute_id |-> InstituteId(c), name |-> name,
                  fee |-> fees]}
         /\ nextId' = nextId + 1
         /\ req' = Req("add_courses", c, args, RedirectResponse("/course"))
         /\ UNCHANGED <<users, institutes, session, students, faculties, payments,
                        tests, attendance, materials, events, files, proc>>

update_course(c, course_id, name, fees) ==
    LET args == [course_id |-> course_id, name |-> name, fees |-> fees]
    IN
    IF NotInstituteAdmin(c)
    THEN Reply("update_course", c, args, RedirectResponse("/"))
    ELSE IF InstituteIndex(c) = 0
    THEN Reply("update_course", c, args, HTTPException("400", "Institute not found"))
    ELSE LET matched == OwnDocs(courses, course_id, InstituteId(c))
             updated == {[d EXCEPT !.institute_id = InstituteId(c),
                                   !.name = name,
                                   !.fee = fees] : d \in matched}
         IN
         IF matched = {}
         THEN Reply("update_course", c, args, HTTPException("404", "Course not found"))
         ELSE /\ courses' = (courses \ matched) \cup updated
              /\ req' = Req("update_course", c, args, RedirectResponse("/course"))
              /\ UNCHANGED <<users, institutes, session, students, faculties, payments,
                             tests, attendance, materials, events, files, nextId, proc>>

delete_course(c, course_id) ==
    LET args == [course_id |-> course_id]
    IN
    IF NotInstituteAdmin(c)
    THEN Reply("delete_course", c, args, RedirectResponse("/"))
    ELSE IF InstituteIndex(c) = 0
    THEN Reply("delete_course", c, args, HTTPException("400", "Institute not found"))
    ELSE IF OwnDocs(courses, course_id, InstituteId(c)) = {}
    THEN Reply("delete_course", c, args, HTTPException("404", "Course not found"))
    ELSE /\ courses' = courses \ OwnDocs(courses, course_id, InstituteId(c))
         /\ req' = Req("delete_course", c, args, RedirectResponse("/course"))
         /\ UNCHANGED <<users, institutes, session, students, faculties, payments,
                        tests, attendance, materials, events, files, nextId, proc>>

----------------------------------------------------------------------------
(* Events *)

add_event(c, title) ==
    LET args == [title |-> title]
    IN
    IF NotInstituteAdmin(c)
    THEN Reply("add_event", c, args, RedirectResponse("/"))
    ELSE IF InstituteIndex(c) = 0
    THEN Reply("add_event", c, args, HTTPException("400", "Institute not found"))
    ELSE /\ events' = events \cup
                {[id |-> nextId, institute_id |-> InstituteId(c), title |-> title,
                  status |-> "Active"]}
         /\ nextId' = nextId + 1
         /\ req' = Req("add_event", c, args, RedirectResponse("/institute-dashboard"))
         /\ UNCHANGED <<users, institutes, session, students, faculties, courses,
                        payments, tests, attendance, materials, files, proc>>

\* db["events"].delete_one({"_id": ObjectId(event_id)})
delete_event(c, event_id) ==
    LET args == [event_id |-> event_id]
    IN
    IF NotInstituteAdmin(c)
    THEN Reply("delete_event", c, args, RedirectResponse("/"))
    ELSE /\ events' = events \ DocsById(events, event_id)
         /\ req' = Req("delete_event", c, args, RedirectResponse("/institute-dashboard"))
         /\ UNCHANGED <<users, institutes, session, students, faculties, courses,
                        payments, tests, attendance, materials, files, nextId, proc>>

----------------------------------------------------------------------------
(* Fees.  Amounts and fees are whole currency units. *)

RECURSIVE SumAmounts(_)
\* sum([p["amount"] for p in payments])
SumAmounts(docs) ==
    IF docs = {} THEN 0
    ELSE LET p == TheDoc(docs) IN p.amount + SumAmounts(docs \ {p})

\* db["payments"].find({"student_id": student_id})
PaymentsOf(student_id) == {p \in payments : p.student_id = student_id}

\* course["fee"] if course else 0, for db["courses"].find_one({"_id": course_id})
TotalFee(course_id) ==
    IF DocsById(courses, course_id) = {} THEN 0
    ELSE TheDoc(DocsById(courses, course_id)).fee

\* course["name"] if course else "N/A"
CourseName(course_id) ==
    IF DocsById(courses, course_id) = {} THEN "N/A"
    ELSE TheDoc(DocsById(courses, course_id)).name

HalfOrMore_Strict(paid_amount, total_fee) == 2 * paid_amount > total_fee

\* paid_amount >= (0.5 * total_fee)
HalfOrMore(paid_amount, total_fee) == 2 * paid_amount >= total_fee

\* the status list_fees shows for a student whose stored status is not "Paid"
ListFeesStatus(stored, paid_amount, total_fee) ==
    IF paid_amount >= total_fee THEN "Paid"
    ELSE IF paid_amount = 0 THEN stored
    ELSE IF HalfOrMore(paid_amount, total_fee) THEN "Partial"
    ELSE "Pending"

\* the status fee_detail shows
FeeDetailStatus(paid_amount, total_fee) ==
    IF paid_amount = total_fee THEN "Paid"
    ELSE IF paid_amount = 0 THEN "Pay Later"
    ELSE IF HalfOrMore(paid_amount, total_fee) THEN "Partial"
    ELSE "Pending"

\* the status collect_payment stores
CollectStatus(paid_amount, total_fee) ==
    IF paid_amount = total_fee THEN "Paid"
    ELSE IF paid_amount = 0 THEN "Pay Later"
    ELSE IF HalfOrMore(paid_amount, total_fee) THEN "Partial"
    ELSE "Pending"

ListFeesPaid_NoShortcut(s) == SumAmounts(PaymentsOf(s.id))

\* list_fees: paid_amount of one student
ListFeesPaid(s) ==
    IF s.payment_status = "Paid" THEN TotalFee(s.course_id)
    ELSE SumAmounts(PaymentsOf(s.id))

\* list_fees: the enriched student
FeeRow(s) ==
    LET total_fee == TotalFee(s.course_id)
        paid_amount == ListFeesPaid(s)
    IN  [id |-> s.id,
         institute_id |-> s.institute_id,
         course_id |-> s.course_id,
         course_name |-> CourseName(s.course_id),
         payment_status |->
            IF s.payment_status = "Paid" THEN "Paid"
            ELSE ListFeesStatus(s.payment_status, paid_amount, total_fee),
         total_fee |-> total_fee,
         paid_amount |-> paid_amount,
         pending_amount |->
            IF s.payment_status = "Paid" THEN 0 ELSE total_fee - paid_amount]

\* templates.TemplateResponse("fees.html", {"students": students, ...})
FeesPage(name, error, rows) ==
    [kind |-> "template", to |-> name, error |-> error, students |-> rows]

\* GET /fees; status "" and course_id 0 stand for an absent query parameter
list_fees(c, status, course_id) ==
    LET args == [status |-> status, course_id |-> course_id]
    IN
    IF NotInstituteAdmin(c)
    THEN Reply("list_fees", c, args, RedirectResponse("/"))
    ELSE IF InstituteIndex(c) = 0
    THEN Reply("list_fees", c, args,
               FeesPage("fees_profile.html", "No institute profile found!", {}))
    ELSE LET own == {s \in students : s.institute_id = InstituteId(c)}
             rows == {FeeRow(s) : s \in own}
             by_status == IF status # ""
                          THEN {r \in rows : r.payment_status = status} ELSE rows
             by_course == IF course_id # 0
                          THEN {r \in by_status : r.course_id = course_id}
                          ELSE by_status
         IN  Reply("list_fees", c, args, FeesPage("fees.html", "", by_course))

\* GET /fees/{student_id}
fee_detail(c, student_id) ==
    LET args == [student_id |-> student_id]
    IN
    IF NotInstituteAdmin(c)
    THEN Reply("fee_detail", c, args, RedirectResponse("/"))
    ELSE IF InstituteIndex(c) = 0
    THEN Reply("fee_detail", c, args, HTTPException("400", "Institute not found"))
    ELSE IF OwnDocs(students, student_id, InstituteId(c)) = {}
    THEN Reply("fee_detail", c, args,
               FeesPage("fees_profile.html", "Student not found!", {}))
    ELSE LET student == TheDoc(OwnDocs(students, student_id, InstituteId(c)))
             total_fee == TotalFee(student.course_id)
             paid_amount == SumAmounts(PaymentsOf(student.id))
         IN  Reply("fee_detail", c, args,
                   FeesPage("fees_details.html", "",
                       {[id |-> student.id,
                         institute_id |-> student.institute_id,
                         course_id |-> student.course_id,
                         course_name |-> CourseName(student.course_id),
                         payment_status |-> FeeDetailStatus(paid_amount, total_fee),
                         total_fee |-> total_fee,
                         paid_amount |-> paid_amount,
                         pending_amount |-> total_fee - paid_amount]}))

\* POST /fees/payment/collect/{student_id}: the payment is inserted before the
\* student is looked up, and the student is looked up and updated by _id alone
collect_payment(c, student_id, amount) ==
    LET args == [student_id |-> student_id, amount |-> amount]
    IN
    IF NotInstituteAdmin(c)
    THEN Reply("collect_payment", c, args, RedirectResponse("/"))
    ELSE IF InstituteIndex(c) = 0
    THEN Reply("collect_payment", c, args, HTTPException("400", "Institute not found"))
    ELSE LET payment_doc == [id |-> nextId, institute_id |-> InstituteId(c),
                             student_id |-> student_id, amount |-> amount]
             inserted == payments \cup {payment_doc}
             matched == DocsById(students, student_id)
         IN
         /\ payments' = inserted
         /\ nextId' = nextId + 1
         /\ UNCHANGED <<users, institutes, session, faculties, courses, tests,
                        attendance, materials, events, files, proc>>
         /\ IF matched = {}
            THEN /\ students' = students
                 /\ req' = Req("collect_payment", c, args,
                               HTTPException("404", "Student not found"))
            ELSE LET student == TheDoc(matched)
                     total_fee == TotalFee(student.course_id)
                     paid_amount ==
                        SumAmounts({p \in inserted : p.student_id = student_id})
                     status == CollectStatus(paid_amount, total_fee)
                 IN  /\ students' = (students \ matched) \cup
                            {[d EXCEPT !.payment_status = status] : d \in matched}
                     /\ req' = Req("collect_payment", c, args, RedirectResponse("/fees"))

----------------------------------------------------------------------------
(* Tests.  A test's students array is a sequence of [student_id, marks]; a  *)
(* test that has no students array yet carries the empty sequence.          *)

\* find_one on a collection: the first matching document in insertion order
FirstDoc(docs) == CHOOSE d \in docs : \A e \in docs : d.id <= e.id

\* POST /tests/add reads user["email"] and institute["_id"] unguarded
add_test(c, course_id, title, total_marks, scheduled_date) ==
    LET args == [course_id |-> course_id, title |-> title,
                 total_marks |-> total_marks, scheduled_date |-> scheduled_date]
    IN
    IF session[c] = NoUser
    THEN Reply("add_test", c, args, HTTPException("500", "TypeError"))
    ELSE IF InstituteIndex(c) = 0
    THEN Reply("add_test", c, args, HTTPException("500", "TypeError"))
    ELSE /\ tests' = tests \cup
                {[id |-> nextId, institute_id |-> InstituteId(c),
                  course_id |-> course_id, title |-> title,
                  total_marks |-> total_marks, scheduled_date |-> scheduled_date,
                  status |-> "Scheduled", students |-> <<>>,
                  marks_assigned |-> FALSE]}
         /\ nextId' = nextId + 1
         /\ req' = Req("add_test", c, args, RedirectResponse("/tests?success=1"))
         /\ UNCHANGED <<users, institutes, session, students, faculties, courses,
                        payments, attendance, materials, events, files, proc>>

\* a handler that writes the tests collection only
WriteTests(handler, c, args, resp, after) ==
    /\ tests' = after
    /\ req' = Req(handler, c, args, resp)
    /\ UNCHANGED <<users, institutes, session, students, faculties, courses,
                   payments, attendance, materials, events, files, nextId, proc>>

\* POST /tests/update/{test_id}: the session is not read
update_test(c, test_id, course_id, title, total_marks, scheduled_date) ==
    LET args == [test_id |-> test_id, course_id |-> course_id, title |-> title,
                 total_marks |-> total_marks, scheduled_date |-> scheduled_date]
        matched == DocsById(tests, test_id)
        updated == {[d EXCEPT !.title = title, !.course_id = course_id,
                              !.total_marks = total_marks,
                              !.scheduled_date = scheduled_date] : d \in matched}
    IN  WriteTests("update_test", c, args, RedirectResponse("/tests?updated=1"),
                   (tests \ matched) \cup updated)

RECURSIVE PresentWithZero(_)
\* start_test: every student marked present, with marks 0
PresentWithZero(entries) ==
    IF entries = <<>> THEN <<>>
    ELSE IF Head(entries).present
    THEN <<[student_id |-> Head(entries).student_id, marks |-> 0]>>
            \o PresentWithZero(Tail(entries))
    ELSE PresentWithZero(Tail(entries))

\* GET /tests/start/{test_id}: the session is not read
start_test(c, test_id) ==
    LET args == [test_id |-> test_id]
        matched == DocsById(tests, test_id)
    IN
    IF matched = {}
    THEN Reply("start_test", c, args, RedirectResponse("/tests"))
    ELSE LET test == TheDoc(matched)
             sheets == {a \in attendance : /\ a.course_id = test.course_id
                                           /\ a.date = test.scheduled_date}
             students_data == IF sheets = {} THEN <<>>
                              ELSE PresentWithZero(FirstDoc(sheets).students)
         IN  WriteTests("start_test", c, args, RedirectResponse("/tests"),
                        (tests \ matched) \cup
                        {[test EXCEPT !.students = students_data,
                                      !.status = "Ongoing"]})

\* GET /tests/end/{test_id}: the session is not read
end_test(c, test_id) ==
    LET args == [test_id |-> test_id]
        matched == DocsById(tests, test_id)
    IN  WriteTests("end_test", c, args, RedirectResponse("/tests"),
                   (tests \ matched) \cup
                   {[d EXCEPT !.status = "Completed"] : d \in matched})

\* POST /tests/analytics/save/{test_id}; marks_dict maps the student ids of
\* the form's marks[...] fields to the marks given; the session is not read
save_test_analytics(c, test_id, marks_dict) ==
    LET args == [test_id |-> test_id, marks_dict |-> marks_dict]
        matched == DocsById(tests, test_id)
    IN
    IF matched = {}
    THEN Reply("save_test_analytics", c, args, RedirectResponse("/tests"))
    ELSE LET test == TheDoc(matched)
             updated_students ==
                [i \in DOMAIN test.students |->
                    IF test.students[i].student_id \in DOMAIN marks_dict
                    THEN [test.students[i] EXCEPT
                             !.marks = marks_dict[test.students[i].student_id]]
                    ELSE test.students[i]]
         IN  WriteTests("save_test_analytics", c, args, RedirectResponse("/tests"),
                        (tests \ matched) \cup
                        {[test EXCEPT !.students = updated_students]})

\* POST /tests/edit-marks/{test_id}; data maps the student ids of the form's
\* marks_<id> fields to the marks given; the session is not read
save_edited_marks(c, test_id, data) ==
    LET args == [test_id |-> test_id, data |-> data]
        matched == DocsById(tests, test_id)
    IN
    IF matched = {}
    THEN Reply("save_edited_marks", c, args, RedirectResponse("/tests"))
    ELSE LET test == TheDoc(matched)
             updated_students ==
                [i \in DOMAIN test.students |->
                    [student_id |-> test.students[i].student_id,
                     marks |-> IF test.students[i].student_id \in DOMAIN data
                               THEN data[test.students[i].student_id] ELSE 0]]
         IN  WriteTests("save_edited_marks", c, args, RedirectResponse("/tests"),
                        (tests \ matched) \cup
                        {[test EXCEPT !.students = updated_students,
                                      !.marks_assigned = TRUE]})

delete_test(c, test_id) ==
    LET args == [test_id |-> test_id]
    IN
    IF NotInstituteAdmin(c)
    THEN Reply("delete_test", c, args, RedirectResponse("/"))
    ELSE IF InstituteIndex(c) = 0
    THEN Reply("delete_test", c, args, RedirectResponse("/"))
    ELSE WriteTests("delete_test", c, args, RedirectResponse("/tests"),
                    tests \ OwnDocs(tests, test_id, InstituteId(c)))

----------------------------------------------------------------------------
(* Attendance.  A sheet carries course_id, date and students, a sequence of  *)
(* [student_id, present]; it carries no institute_id.                        *)

add_attendance(c, course_id, date, students_data) ==
    LET args == [course_id |-> course_id, date |-> date,
                 students_data |-> students_data]
    IN
    IF NotInstituteAdmin(c)
    THEN Reply("add_attendance", c, args, RedirectResponse("/"))
    ELSE IF InstituteIndex(c) = 0
    THEN Reply("add_attendance", c, args, RedirectResponse("/"))
    ELSE /\ attendance' = attendance \cup
                {[id |-> nextId, course_id |-> course_id, date |-> date,
                  students |-> students_data]}
         /\ nextId' = nextId + 1
         /\ req' = Req("add_attendance", c, args,
                       RedirectResponse("/attendance?success=1"))
         /\ UNCHANGED <<users, institutes, session, students, faculties, courses,
                        payments, tests, materials, events, files, proc>>

\* db.attendance.update_one({"_id": ObjectId(attendance_id)}, ...)
update_attendance(c, attendance_id, students_data) ==
    LET args == [attendance_id |-> attendance_id, students_data |-> students_data]
        matched == DocsById(attendance, attendance_id)
    IN
    IF NotInstituteAdmin(c)
    THEN Reply("update_attendance", c, args, RedirectResponse("/"))
    ELSE IF InstituteIndex(c) = 0
    THEN Reply("update_attendance", c, args, RedirectResponse("/"))
    ELSE /\ attendance' = (attendance \ matched) \cup
                {[d EXCEPT !.students = students_data] : d \in matched}
         /\ req' = Req("update_attendance", c, args,
                       RedirectResponse("/attendance/{id}?success=1"))
         /\ UNCHANGED <<users, institutes, session, students, faculties, courses,
                        payments, tests, materials, events, files, nextId, proc>>

----------------------------------------------------------------------------
(* Materials and the GridFS blob store.  An uploaded file is                 *)
(* [filename, size], its filename [stem, ext]; a stored blob is [id, length]; *)
(* a material lists its files as [file_name, file_id, file_size].            *)

MAX_FILE_SIZE == 5 * 1024 * 1024
MAX_TOTAL_SIZE == 10 * 1024 * 1024

ALLOWED_EXTENSIONS == {".pdf", ".ppt", ".pptx", ".docx", ".jpeg", ".jpg", ".png"}

\* str.lower() on the extensions the model uploads
lower(ext) ==
    CASE ext = ".PDF" -> ".pdf"
      [] ext = ".Png" -> ".png"
      [] ext = ".EXE" -> ".exe"
      [] OTHER -> ext

\* os.path.splitext(filename)[1]
splitext(filename) == filename.ext

FileTooLarge_Lax(file_size) == file_size > MAX_TOTAL_SIZE

\* file_size > MAX_FILE_SIZE
FileTooLarge(file_size) == file_size > MAX_FILE_SIZE

\* total_size + file_size > MAX_TOTAL_SIZE
TotalTooLarge(total_size, file_size) == total_size + file_size > MAX_TOTAL_SIZE

\* the state of the upload loop before its first file
UploadStart(total_size) ==
    [saved_files |-> <<>>, put |-> {}, total_size |-> total_size,
     next_id |-> nextId, error |-> ""]

RECURSIVE SaveUploads(_, _)
\* the loop over the uploaded files: skip a file whose extension is not
\* allowed, stop at the first file over a limit, fs.put every other file
SaveUploads(uploads, st) ==
    IF uploads = <<>> THEN st
    ELSE LET file == Head(uploads)
             file_size == file.size
         IN
         IF lower(splitext(file.filename)) \notin ALLOWED_EXTENSIONS
         THEN SaveUploads(Tail(uploads), st)
         ELSE IF FileTooLarge(file_size)
         THEN [st EXCEPT !.error = "File exceeds 5 MB limit"]
         ELSE IF TotalTooLarge(st.total_size, file_size)
         THEN [st EXCEPT !.error = "Total upload size exceeds 10 MB limit"]
         ELSE SaveUploads(Tail(uploads),
                [st EXCEPT
                    !.saved_files = Append(@, [file_name |-> file.filename,
                                               file_id |-> st.next_id,
                                               file_size |-> file_size]),
                    !.put = @ \cup {[id |-> st.next_id, length |-> file_size]},
                    !.total_size = @ + file_size,
                    !.next_id = @ + 1])

\* POST /material/add: the faculty is looked up by _id alone, the course within
\* the caller's institute; blobs put before a limit is hit stay in GridFS
add_material(c, title, course, faculty_id, uploads) ==
    LET args == [title |-> title, course |-> course, faculty_id |-> faculty_id,
                 files |-> uploads]
    IN
    IF NotInstituteAdmin(c)
    THEN Reply("add_material", c, args, RedirectResponse("/"))
    ELSE IF InstituteIndex(c) = 0
    THEN Reply("add_material", c, args, RedirectResponse("/"))
    ELSE IF DocsById(faculties, faculty_id) = {}
    THEN Reply("add_material", c, args, RedirectResponse("/materials"))
    ELSE IF OwnDocs(courses, course, InstituteId(c)) = {}
    THEN Reply("add_material", c, args, RedirectResponse("/materials"))
    ELSE LET faculty == TheDoc(DocsById(faculties, faculty_id))
             course_doc == TheDoc(OwnDocs(courses, course, InstituteId(c)))
             done == SaveUploads(uploads, UploadStart(0))
         IN
         /\ files' = files \cup done.put
         /\ UNCHANGED <<users, institutes, session, students, faculties, courses,
                        payments, tests, attendance, events, proc>>
         /\ IF done.error # ""
            THEN /\ materials' = materials
                 /\ nextId' = done.next_id
                 /\ req' = Req("add_material", c, args,
                               TemplateResponse("materials.html", done.error))
            ELSE /\ materials' = materials \cup
                        {[id |-> done.next_id,
                          institute_id |-> InstituteId(c),
                          title |-> title,
                          course_id |-> course_doc.id,
                          course_name |-> course_doc.name,
                          files |-> done.saved_files,
                          uploaded_by |-> faculty.name]}
                 /\ nextId' = done.next_id + 1
                 /\ req' = Req("add_material", c, args, RedirectResponse("/materials"))

RECURSIVE StoredSize(_)
\* the sum of fs.get(file_id).length over the files still in GridFS
StoredSize(entries) ==
    IF entries = <<>> THEN 0
    ELSE LET blobs == DocsById(files, Head(entries).file_id)
         IN  (IF blobs = {} THEN 0 ELSE TheDoc(blobs).length)
                + StoredSize(Tail(entries))

\* POST /material/update/{material_id}: the files named in remove_files are
\* deleted from GridFS before the uploads are checked against the limits
update_material(c, material_id, title, course, remove_files, uploads) ==
    LET args == [material_id |-> material_id, title |-> title, course |-> course,
                 remove_files |-> remove_files, files |-> uploads]
    IN
    IF NotInstituteAdmin(c)
    THEN Reply("update_material", c, args, RedirectResponse("/"))
    ELSE IF InstituteIndex(c) = 0
    THEN Reply("update_material", c, args, RedirectResponse("/"))
    ELSE IF \/ OwnDocs(materials, material_id, InstituteId(c)) = {}
            \/ OwnDocs(courses, course, InstituteId(c)) = {}
    THEN Reply("update_material", c, args, RedirectResponse("/material/{id}"))
    ELSE LET existing_material == TheDoc(OwnDocs(materials, material_id, InstituteId(c)))
             course_doc == TheDoc(OwnDocs(courses, course, InstituteId(c)))
             Kept(f) == f.file_name \notin remove_files
             remaining_files == SelectSeq(existing_material.files, Kept)
             deleted == {f.file_id : f \in {g \in Range(existing_material.files) :
                                                ~Kept(g)}}
             kept_blobs == {b \in files : b.id \notin deleted}
             done == SaveUploads(uploads, UploadStart(StoredSize(remaining_files)))
         IN
         /\ files' = kept_blobs \cup done.put
         /\ nextId' = done.next_id
         /\ UNCHANGED <<users, institutes, session, students, faculties, courses,
                        payments, tests, attendance, events, proc>>
         /\ IF done.error # ""
            THEN /\ materials' = materials
                 /\ req' = Req("update_material", c, args,
                               TemplateResponse("material_detail.html", done.error))
            ELSE /\ materials' = (materials \ DocsById(materials, material_id)) \cup
                        {[d EXCEPT !.title = title,
                                   !.course_id = course_doc.id,
                                   !.course_name = course_doc.name,
                                   !.files = remaining_files \o done.saved_files] :
                         d \in DocsById(materials, material_id)}
                 /\ req' = Req("update_material", c, args,
                               RedirectResponse("/material/{id}"))

\* POST /material/delete/{material_id}: the session is not read
delete_material(c, material_id) ==
    LET args == [material_id |-> material_id]
        matched == DocsById(materials, material_id)
    IN
    IF matched = {}
    THEN Reply("delete_material", c, args, RedirectResponse("/materials"))
    ELSE LET material == TheDoc(matched)
             deleted == {f.file_id : f \in Range(material.files)}
         IN
         /\ files' = {b \in files : b.id \notin deleted}
         /\ materials' = materials \ matched
         /\ req' = Req("delete_material", c, args, RedirectResponse("/materials"))
         /\ UNCHANGED <<users, institutes, session, students, faculties, courses,
                        payments, tests, attendance, events, nextId, proc>>

----------------------------------------------------------------------------
(* Requests handled one at a time: sign-up, login, OAuth callback, logout *)

EmptyDb ==
    /\ users = <<>>
    /\ institutes = <<>>
    /\ students = {}
    /\ faculties = {}
    /\ courses = {}
    /\ payments = {}
    /\ tests = {}
    /\ attendance = {}
    /\ materials = {}
    /\ events = {}
    /\ files = {}
    /\ nextId = 1

Init ==
    /\ EmptyDb
    /\ session = [c \in Clients |-> NoUser]
    /\ req = NoReq
    /\ proc = <<>>

AuthClients == {"c1"}
Passwords == {"pw", "bad"}

\* E-mail addresses are interchangeable, so they are numbered in the order in
\* which they first reach the users collection: a request names a stored
\* address or the next unused one.
KnownOrNextEmail == {e \in Emails : e <= Len(users) + 1}

Next ==
    \/ \E c \in AuthClients, role \in Roles, email \in KnownOrNextEmail :
            signup_user(c, role, email, "pw")
    \/ \E c \in AuthClients, email \in KnownOrNextEmail, password \in Passwords,
          role \in Roles :
            login_manual(c, email, password, role)
    \/ \E c \in AuthClients, email \in KnownOrNextEmail : auth_callback(c, email)
    \/ \E c \in AuthClients : logout(c)
    \/ \E c \in AuthClients : index(c)

Spec == Init /\ [][Next]_vars

\* C1: handled one at a time, sign-ups, manual logins and OAuth callbacks never
\* leave more than two platform_admin documents in the users collection.
C1_AtMostTwoAdmins == count_admins <= 2

\* two platform admins exist and a third platform_admin sign-up was turned away
C1_Witness ==
    /\ count_admins = 2
    /\ req.handler = "signup_user"
    /\ req.resp.error = "Signup blocked: Only platform admins are allowed to access!"
    /\ Len(users) = 2

----------------------------------------------------------------------------
(* POST /signup requests in flight together, one database operation a step *)

Procs == 1 .. NProcs
ClientOf(p) == IF p = 1 THEN "c1" ELSE IF p = 2 THEN "c2" ELSE "c3"

Idle == [pc |-> "idle", role |-> "none", email |-> 0]

RaceUnchanged ==
    UNCHANGED <<institutes, students, faculties, courses, payments, tests,
                attendance, materials, events, files, nextId>>

RaceDone(p, resp) ==
    /\ proc' = [proc EXCEPT ![p].pc = "done"]
    /\ req' = Req("signup_user", ClientOf(p),
                  [role |-> proc[p].role, email |-> proc[p].email], resp)

\* users_collection.find_one({"email": email}), then either the error page
\* or on to insert_one
RaceFindOne(p, role, email) ==
    IF UserByEmail(email) # 0
    THEN /\ proc' = [proc EXCEPT ![p] = [pc |-> "done", role |-> role, email |-> email]]
         /\ req' = Req("signup_user", ClientOf(p), [role |-> role, email |-> email],
                       TemplateResponse("index.html", "User already exists!"))
    ELSE /\ proc' = [proc EXCEPT ![p] = [pc |-> "insert", role |-> role, email |-> email]]
         /\ UNCHANGED req

\* the request arrives and runs up to and including its first database
\* operation: count_documents for a platform_admin, find_one otherwise
SignupArrive(p, role, email) ==
    /\ proc[p].pc = "idle"
    /\ RaceUnchanged
    /\ UNCHANGED <<users, session>>
    /\ IF role = "platform_admin"
       THEN IF SignupBlocked(role)
            THEN /\ proc' = [proc EXCEPT ![p] =
                        [pc |-> "done", role |-> role, email |-> email]]
                 /\ req' = Req("signup_user", ClientOf(p),
                        [role |-> role, email |-> email], TemplateResponse("index.html",
                        "Signup blocked: Only platform admins are allowed to access!"))
            ELSE /\ proc' = [proc EXCEPT ![p] =
                        [pc |-> "find", role |-> role, email |-> email]]
                 /\ UNCHANGED req
       ELSE RaceFindOne(p, role, email)

SignupFind(p) ==
    /\ proc[p].pc = "find"
    /\ RaceUnchanged
    /\ UNCHANGED <<users, session>>
    /\ RaceFindOne(p, proc[p].role, proc[p].email)

\* insert_one, the session write and the redirect
SignupInsert(p) ==
    /\ proc[p].pc = "insert"
    /\ RaceUnchanged
    /\ users' = Append(users,
            [email |-> proc[p].email, role |-> proc[p].role,
             password |-> hashpw("pw"),
             auth_type |-> [str |-> TRUE, list |-> <<"manual">>],
             profile_complete |-> FALSE])
    /\ session' = [session EXCEPT ![ClientOf(p)] =
            [email |-> proc[p].email, role |-> proc[p].role, profile_complete |-> FALSE]]
    /\ RaceDone(p, IF proc[p].role = "platform_admin"
                   THEN RedirectResponse("/admin-dashboard")
                   ELSE RedirectResponse("/complete-profile"))

InitRace ==
    /\ EmptyDb
    /\ session = [c \in Clients |-> NoUser]
    /\ req = NoReq
    /\ proc = [p \in Procs |-> Idle]

NextRace ==
    \/ \E p \in Procs, role \in Roles, email \in Emails : SignupArrive(p, role, email)
    \/ \E p \in Procs : SignupFind(p)
    \/ \E p \in Procs : SignupInsert(p)

SpecRace == InitRace /\ [][NextRace]_vars

\* C2: with POST /signup requests interleaved between their database
\* operations, the users collection never holds more than two platform_admin
\* documents.
C2_RaceKeepsCap ==
    Cardinality({i \in DOMAIN users : users[i].role = "platform_admin"}) < 3

----------------------------------------------------------------------------
(* Two institutes side by side: students, faculty and courses *)

ManualUser(email, role, done) ==
    [email |-> email, role |-> role, password |-> hashpw("pw"),
     auth_type |-> [str |-> TRUE, list |-> <<"manual">>],
     profile_complete |-> done]

\* The state after three institute admins signed up, each in a browser of its
\* own, and the first two completed their profiles: c1 runs institute 1,
\* c2 institute 2, c3 has no institute yet.
ThreeAdmins ==
    /\ users = <<ManualUser(1, "institute_admin", TRUE),
                 ManualUser(2, "institute_admin", TRUE),
                 ManualUser(3, "institute_admin", FALSE)>>
    /\ institutes = <<[id |-> 1, user_email |-> 1], [id |-> 2, user_email |-> 2]>>
    /\ session = [c \in Clients |->
            IF c = "c1" THEN SessionUser(users[1])
            ELSE IF c = "c2" THEN SessionUser(users[2])
            ELSE SessionUser(users[3])]

InitPeople ==
    /\ ThreeAdmins
    /\ students = {}
    /\ faculties = {}
    /\ courses = {}
    /\ payments = {}
    /\ tests = {}
    /\ attendance = {}
    /\ materials = {}
    /\ events = {}
    /\ files = {}
    /\ nextId = 1
    /\ req = NoReq
    /\ proc = <<>>

\* ids a request can name: every ObjectId handed out so far and one never used
Ids == 1 .. nextId
CanInsert == nextId <= MaxDocs
Names == {"n1", "n2"}
Batches == {{}} \cup {{i} : i \in Ids}

\* The two institutes are symmetric: the admin of institute 1 issues every
\* request, the admin of institute 2 only the ones that populate its collections.
PeopleClients == {"c1", "c2"}
Editors == {"c1"}

NextPeople ==
    \/ \E c \in PeopleClients, course_id \in Ids : CanInsert /\ add_student(c, course_id)
    \/ \E c \in Editors, student_id \in Ids, course_id \in Ids,
          payment_status \in {"Pending", "Paid"} :
            update_student(c, student_id, course_id, payment_status)
    \/ \E c \in Editors, student_id \in Ids : delete_student(c, student_id)
    \/ \E c \in PeopleClients, batch \in Batches :
            CanInsert /\ add_faculty(c, "n1", batch)
    \/ \E c \in Editors, faculty_id \in Ids, batch \in Batches :
            update_faculty(c, faculty_id, "n1", batch)
    \/ \E c \in Editors, faculty_id \in Ids : delete_faculty(c, faculty_id)
    \/ \E c \in PeopleClients, name \in Names, given \in BOOLEAN :
            CanInsert /\ add_courses(c, name, 100, given)
    \/ \E c \in Editors, course_id \in Ids, name \in Names :
            update_course(c, course_id, name, 100)
    \/ \E c \in Editors, course_id \in Ids : delete_course(c, course_id)

SpecPeople == InitPeople /\ [][NextPeople]_vars

PeopleHandlers ==
    {"add_student", "update_student", "delete_student",
     "add_faculty", "update_faculty", "delete_faculty",
     "add_courses", "update_course", "delete_course"}

\* the id of the institute the browser's user runs, 0 when there is none
CallerInstitute(c) == IF InstituteIndex(c) = 0 THEN 0 ELSE InstituteId(c)

Changed(before, after) == (before \ after) \cup (after \ before)

Foreign(coll, id, institute_id) ==
    \E d \in coll : d.id = id /\ d.institute_id # institute_id

\* the request names, as the document to act on or as a student's course, a
\* document of another institute
TargetForeign(r, institute_id) ==
    \/ /\ r.handler \in {"update_student", "delete_student"}
       /\ Foreign(students, r.args.student_id, institute_id)
    \/ /\ r.handler \in {"add_student", "update_student", "update_course", "delete_course"}
       /\ Foreign(courses, r.args.course_id, institute_id)
    \/ /\ r.handler = "update_faculty"
       /\ Foreign(faculties, r.args.faculty_id, institute_id)
    \/ /\ r.handler = "delete_faculty"
       /\ Foreign(faculties, r.args.course_id, institute_id)

\* the request lists a course of another institute in a faculty batch
BatchForeign(r, institute_id) ==
    /\ r.handler \in {"add_faculty", "update_faculty"}
    /\ \E id \in r.args.batch : Foreign(courses, id, institute_id)

PeopleUnchanged == UNCHANGED <<students, faculties, courses>>

WritesOwnInstituteOnly(institute_id) ==
    /\ \A d \in Changed(students, students') : d.institute_id = institute_id
    /\ \A d \in Changed(faculties, faculties') : d.institute_id = institute_id
    /\ \A d \in Changed(courses, courses') : d.institute_id = institute_id

C6_AddStudent ==
    [][(/\ req'.handler = "add_student"
        /\ ~NotInstituteAdmin(req'.client)
        /\ InstituteIndex(req'.client) # 0) =>
        LET iid == InstituteId(req'.client)
            own == OwnDocs(courses, req'.args.course_id, iid)
        IN  IF own # {}
            THEN /\ Cardinality(students' \ students) = 1
                 /\ students \subseteq students'
                 /\ \A d \in students' \ students :
                        /\ d.institute_id = iid
                        /\ d.course_id = req'.args.course_id
                        /\ \E k \in own : d.course_name = k.name
                        /\ d.payment_status = "Pending"
                 /\ req'.resp = RedirectResponse("/students")
            ELSE /\ students' = students
                 /\ req'.resp.kind = "exception"
      ]_vars

\* a student was added to institute 1 while institute 2 also has a course
C6_Witness ==
    /\ req.handler = "add_student"
    /\ req.resp = RedirectResponse("/students")
    /\ \E d \in students : d.id = nextId - 1 /\ d.course_id = req.args.course_id

----------------------------------------------------------------------------
(* Who may write what: institute 2 has data, institute 1's admin, a platform *)
(* admin and a browser without a user send requests                          *)

NotesPdf == [stem |-> "notes", ext |-> ".PDF"]
ToolExe == [stem |-> "tool", ext |-> ".exe"]

\* The state after the admins of institutes 1 and 2 and a platform admin
\* signed up, institute 1 added a course, and institute 2 added a course, a
\* faculty member, a student who paid half the fee, a test, an attendance
\* sheet, a material with one file and an event.  Browser c1 is logged in as
\* institute 1's admin, c2 as the platform admin, c3 has no user.
Populated ==
    /\ users = <<ManualUser(1, "institute_admin", TRUE),
                 ManualUser(2, "institute_admin", TRUE),
                 ManualUser(3, "platform_admin", FALSE)>>
    /\ institutes = <<[id |-> 1, user_email |-> 1], [id |-> 2, user_email |-> 2]>>
    /\ session = [c \in Clients |->
            IF c = "c1" THEN SessionUser(users[1])
            ELSE IF c = "c2" THEN SessionUser(users[3])
            ELSE NoUser]
    /\ courses = {[id |-> 1, institute_id |-> 1, name |-> "n1", fee |-> 100],
                  [id |-> 2, institute_id |-> 2, name |-> "n2", fee |-> 100]}
    /\ faculties = {[id |-> 3, institute_id |-> 2, name |-> "n1", batch |-> {"n2"}]}
    /\ students = {[id |-> 4, course_id |-> 2, course_name |-> "n2",
                    payment_status |-> "Partial", institute_id |-> 2]}
    /\ payments = {[id |-> 5, institute_id |-> 2, student_id |-> 4, amount |-> 50]}
    /\ tests = {[id |-> 6, institute_id |-> 2, course_id |-> 2, title |-> "n1",
                 total_marks |-> 100, scheduled_date |-> "d1",
                 status |-> "Scheduled", students |-> <<>>,
                 marks_assigned |-> FALSE]}
    /\ attendance = {[id |-> 7, course_id |-> 2, date |-> "d1",
                      students |-> <<[student_id |-> 4, present |-> TRUE]>>]}
    /\ files = {[id |-> 8, length |-> 1]}
    /\ materials = {[id |-> 9, institute_id |-> 2, title |-> "n1", course_id |-> 2,
                     course_name |-> "n2",
                     files |-> <<[file_name |-> NotesPdf, file_id |-> 8,
                                  file_size |-> 1]>>,
                     uploaded_by |-> "n1"]}
    /\ events = {[id |-> 10, institute_id |-> 2, title |-> "n1", status |-> "Active"]}
    /\ nextId = 11

InitAccess ==
    /\ Populated
    /\ req = NoReq
    /\ proc = <<>>

\* ids a request can name in a collection: its documents' and one it lacks
IdsOf(coll) == {d.id : d \in coll} \cup {nextId}

\* ids a request can name in a collection: its documents'
Known(coll) == {d.id : d \in coll}

\* a request may use up n more ObjectIds
AccessCanInsert(n) == nextId + n <= 10 + MaxDocs

Outsiders == {"c2", "c3"}
Insiders == {"c1"}

AttendanceForms ==
    {<<>>} \cup {<<[student_id |-> d.id, present |-> TRUE]>> : d \in students}

MarksForms == {[s \in {d.id} |-> 40] : d \in students}

UploadForms == {<<>>, <<[filename |-> NotesPdf, size |-> 1]>>}

NextGate ==
    \/ \E c \in Outsiders, course_id \in IdsOf(courses) : add_student(c, course_id)
    \/ \E c \in Outsiders, student_id \in IdsOf(students), course_id \in IdsOf(courses) :
            update_student(c, student_id, course_id, "Paid")
    \/ \E c \in Outsiders, student_id \in IdsOf(students) : delete_student(c, student_id)
    \/ \E c \in Outsiders : add_faculty(c, "n1", {})
    \/ \E c \in Outsiders, faculty_id \in IdsOf(faculties) :
            update_faculty(c, faculty_id, "n2", {2})
    \/ \E c \in Outsiders, faculty_id \in IdsOf(faculties) : delete_faculty(c, faculty_id)
    \/ \E c \in Outsiders : add_courses(c, "n1", 100, TRUE)
    \/ \E c \in Outsiders, course_id \in IdsOf(courses) :
            update_course(c, course_id, "n1", 100)
    \/ \E c \in Outsiders, course_id \in IdsOf(courses) : delete_course(c, course_id)
    \/ \E c \in Outsiders : add_event(c, "n1")
    \/ \E c \in Outsiders, event_id \in IdsOf(events) : delete_event(c, event_id)
    \/ \E c \in Outsiders, student_id \in IdsOf(students) :
            collect_payment(c, student_id, 50)
    \/ \E c \in Outsiders, course_id \in IdsOf(courses) :
            add_test(c, course_id, "n1", 100, "d1")
    \/ \E c \in Outsiders, test_id \in IdsOf(tests), course_id \in IdsOf(courses) :
            update_test(c, test_id, course_id, "n2", 100, "d1")
    \/ \E c \in Outsiders, test_id \in IdsOf(tests) : start_test(c, test_id)
    \/ \E c \in Outsiders, test_id \in IdsOf(tests) : end_test(c, test_id)
    \/ \E c \in Outsiders, test_id \in IdsOf(tests), marks_dict \in MarksForms :
            save_test_analytics(c, test_id, marks_dict)
    \/ \E c \in Outsiders, test_id \in IdsOf(tests), data \in MarksForms :
            save_edited_marks(c, test_id, data)
    \/ \E c \in Outsiders, test_id \in IdsOf(tests) : delete_test(c, test_id)
    \/ \E c \in Outsiders, course_id \in IdsOf(courses), students_data \in AttendanceForms :
            add_attendance(c, course_id, "d1", students_data)
    \/ \E c \in Outsiders, attendance_id \in IdsOf(attendance),
          students_data \in AttendanceForms :
            update_attendance(c, attendance_id, students_data)
    \/ \E c \in Outsiders, course \in IdsOf(courses), faculty_id \in IdsOf(faculties),
          uploads \in UploadForms :
            add_material(c, "n1", course, faculty_id, uploads)
    \/ \E c \in Outsiders, material_id \in IdsOf(materials), course \in IdsOf(courses),
          remove_files \in {{}, {NotesPdf}}, uploads \in UploadForms :
            update_material(c, material_id, "n2", course, remove_files, uploads)
    \/ \E c \in Outsiders, material_id \in IdsOf(materials) : delete_material(c, material_id)

SpecGate == InitAccess /\ [][NextGate]_vars

WriteHandlers ==
    PeopleHandlers \cup
    {"add_event", "delete_event", "collect_payment",
     "add_test", "update_test", "start_test", "end_test",
     "save_test_analytics", "save_edited_marks", "delete_test",
     "add_attendance", "update_attendance",
     "add_material", "update_material", "delete_material"}

\* C3: every handler that creates, updates or deletes students, faculty,
\* courses, payments, tests, test marks, attendance records, materials or
\* events answers a request whose session has no user, or a user whose role
\* is not "institute_admin", with a redirect to "/" and leaves every
\* collection and the blob store unchanged.
C3_WritesGated ==
    [][(req'.handler \in WriteHandlers /\ NotInstituteAdmin(req'.client)) =>
        (req'.resp = RedirectResponse("/") /\ UNCHANGED db)
      ]_vars

(* Institute 1's admin alone sends requests *)

NextTenant ==
    \/ \E c \in Insiders : AccessCanInsert(1) /\ add_event(c, "n1")
    \/ \E c \in Insiders, event_id \in Known(events) : delete_event(c, event_id)
    \/ \E c \in Insiders, student_id \in Known(students) :
            AccessCanInsert(1) /\ collect_payment(c, student_id, 50)
    \/ \E c \in Insiders, course_id \in Known(courses) :
            AccessCanInsert(1) /\ add_test(c, course_id, "n1", 100, "d1")
    \/ \E c \in Insiders, test_id \in Known(tests) :
            update_test(c, test_id, 2, "n2", 100, "d1")
    \/ \E c \in Insiders, test_id \in Known(tests) : start_test(c, test_id)
    \/ \E c \in Insiders, test_id \in Known(tests) : end_test(c, test_id)
    \/ \E c \in Insiders, test_id \in Known(tests), marks_dict \in MarksForms :
            save_test_analytics(c, test_id, marks_dict)
    \/ \E c \in Insiders, test_id \in Known(tests), data \in MarksForms :
            save_edited_marks(c, test_id, data)
    \/ \E c \in Insiders, test_id \in Known(tests) : delete_test(c, test_id)
    \/ \E c \in Insiders, course_id \in Known(courses), students_data \in AttendanceForms :
            AccessCanInsert(1) /\ add_attendance(c, course_id, "d1", students_data)
    \/ \E c \in Insiders, attendance_id \in Known(attendance),
          students_data \in AttendanceForms :
            update_attendance(c, attendance_id, students_data)
    \/ \E c \in Insiders, course \in Known(courses), faculty_id \in Known(faculties),
          uploads \in UploadForms :
            AccessCanInsert(Len(uploads) + 1)
                /\ add_material(c, "n1", course, faculty_id, uploads)
    \/ \E c \in Insiders, material_id \in Known(materials), course \in Known(courses),
          remove_files \in {{}, {NotesPdf}}, uploads \in UploadForms :
            AccessCanInsert(Len(uploads))
                /\ update_material(c, material_id, "n2", course, remove_files, uploads)
    \/ \E c \in Insiders, material_id \in Known(materials) : delete_material(c, material_id)

SpecTenant == InitAccess /\ [][NextTenant]_vars

\* the course of an attendance sheet belongs to the institute
SheetOf(institute_id) ==
    {a \in attendance : \E k \in courses :
        k.id = a.course_id /\ k.institute_id = institute_id}

Owned(coll, institute_id) == {d \in coll : d.institute_id = institute_id}

\* C5: no request made in the session of institute 1's admin modifies or
\* deletes an event, a payment, a student's payment_status, a test, an
\* attendance record or a material that belongs to institute 2.
C5_TenantIsolation ==
    [][(req'.client = "c1" /\ req'.handler \in WriteHandlers) =>
        /\ Owned(events, 2) \subseteq events'
        /\ Owned(payments, 2) \subseteq payments'
        /\ Owned(students, 2) \subseteq students'
        /\ Owned(tests, 2) \subseteq tests'
        /\ SheetOf(2) \subseteq attendance'
        /\ Owned(materials, 2) \subseteq materials'
      ]_vars

----------------------------------------------------------------------------
(* Fees: institute 1 has a course and two students; payments are collected, *)
(* students edited, the course deleted, the fee pages read                  *)

\* The state after the three institute admins signed up, the first two
\* completed their profiles, and institute 1 added a course with fee 100 and
\* two students on it.
InitFees ==
    /\ ThreeAdmins
    /\ courses = {[id |-> 1, institute_id |-> 1, name |-> "n1", fee |-> 100]}
    /\ students = {[id |-> 2, course_id |-> 1, course_name |-> "n1",
                    payment_status |-> "Pending", institute_id |-> 1],
                   [id |-> 3, course_id |-> 1, course_name |-> "n1",
                    payment_status |-> "Pending", institute_id |-> 1]}
    /\ faculties = {}
    /\ payments = {}
    /\ tests = {}
    /\ attendance = {}
    /\ materials = {}
    /\ events = {}
    /\ files = {}
    /\ nextId = 4
    /\ req = NoReq
    /\ proc = <<>>

Amounts == {50, 60}

\* the collections may grow by MaxDocs documents
FeesCanInsert == nextId <= 3 + MaxDocs

\* institute 1's admin and the admin without an institute read the fee pages
FeeReaders == {"c1", "c3"}

NextFees ==
    \/ \E c \in Editors, student_id \in Known(students), amount \in Amounts :
            FeesCanInsert /\ collect_payment(c, student_id, amount)
    \/ \E c \in PeopleClients \ Editors, student_id \in IdsOf(students) :
            FeesCanInsert /\ collect_payment(c, student_id, 60)
    \/ \E c \in Editors, student_id \in Known(students), course_id \in Known(courses),
          payment_status \in {"Pending", "Paid"} :
            update_student(c, student_id, course_id, payment_status)
    \/ \E c \in Editors, course_id \in Known(courses) : delete_course(c, course_id)
    \/ \E c \in FeeReaders, status \in {"", "Partial"}, course_id \in {0, 1} :
            list_fees(c, status, course_id)
    \/ \E c \in FeeReaders, student_id \in IdsOf(students) : fee_detail(c, student_id)

SpecFees == InitFees /\ [][NextFees]_vars

\* the student document a fee page row was computed from
StoredStudent(row) == TheDoc(DocsById(students, row.id))

\* the amounts of all payment records carrying the student's id, added up
RECURSIVE Paid(_)
Paid(ps) ==
    IF ps = {} THEN 0
    ELSE LET p == CHOOSE q \in ps : TRUE IN p.amount + Paid(ps \ {p})

PaidBy(student_id) == Paid({p \in payments : p.student_id = student_id})

\* the fee of the student's course, 0 when the course is gone
FeeOf(course_id) ==
    IF \E k \in courses : k.id = course_id
    THEN (CHOOSE k \in courses : k.id = course_id).fee
    ELSE 0

FeeListShown ==
    /\ req.handler = "list_fees"
    /\ req.resp.kind = "template"
    /\ req.resp.to = "fees.html"

\* C7: in the fee list every row is a student of the caller's institute;
\* total_fee is the fee of the student's course; when the stored
\* payment_status is "Paid", paid_amount equals that fee and pending_amount
\* is 0; otherwise paid_amount is the sum of the amounts of all payment
\* records carrying the student's id and pending_amount is total_fee minus
\* paid_amount.  Without a filter every student of the institute has a row.
C7_FeeListAmounts ==
    FeeListShown =>
        /\ \A row \in req.resp.students :
            /\ DocsById(students, row.id) # {}
            /\ StoredStudent(row).institute_id = CallerInstitute(req.client)
            /\ row.total_fee = FeeOf(StoredStudent(row).course_id)
            /\ IF StoredStudent(row).payment_status = "Paid"
               THEN /\ row.paid_amount = FeeOf(StoredStudent(row).course_id)
                    /\ row.pending_amount = 0
               ELSE /\ row.paid_amount = PaidBy(row.id)
                    /\ row.pending_amount = row.total_fee - row.paid_amount
        /\ (req.args.status = "" /\ req.args.course_id = 0) =>
              \A s \in students : s.institute_id = CallerInstitute(req.client) =>
                  \E row \in req.resp.students : row.id = s.id

\* the fee list shows a student marked "Paid" who paid nothing, and one whose
\* payments were collected by two institutes
C7_Witness ==
    /\ FeeListShown
    /\ \E row \in req.resp.students :
          /\ StoredStudent(row).payment_status = "Paid"
          /\ PaidBy(row.id) = 0
          /\ row.paid_amount = 100
    /\ \E row \in req.resp.students :
          /\ StoredStudent(row).payment_status # "Paid"
          /\ row.paid_amount = 110
          /\ \E p, q \in payments :
                /\ p.student_id = row.id /\ q.student_id = row.id
                /\ p.institute_id # q.institute_id

\* the request derived a fee status for the student: fee_detail shows it,
\* collect_payment stores it, list_fees shows it unless the student is marked
\* "Paid" or the filters hide the row
Derived(student_id, status) ==
    \/ /\ FeeListShown
       /\ \E row \in req.resp.students :
            /\ row.id = student_id
            /\ row.payment_status = status
            /\ StoredStudent(row).payment_status # "Paid"
    \/ /\ req.handler = "fee_detail"
       /\ req.resp.kind = "template"
       /\ req.resp.to = "fees_details.html"
       /\ \E row \in req.resp.students :
            row.id = student_id /\ row.payment_status = status
    \/ /\ req.handler = "collect_payment"
       /\ req.resp = RedirectResponse("/fees")
       /\ req.args.student_id = student_id
       /\ \E s \in students : s.id = student_id /\ s.payment_status = status

Statuses == {"Paid", "Pay Later", "Partial", "Pending"}

\* C8: at every call site that derives the fee status (list_fees, fee_detail,
\* collect_payment) the derived status is "Paid" whenever paid_amount is
\* greater than or equal to total_fee, including when the recorded payments
\* exceed the course fee.
C8_PaidWhenCovered ==
    \A s \in students, status \in Statuses :
        (Derived(s.id, status) /\ PaidBy(s.id) >= FeeOf(s.course_id)) =>
            status = "Paid"

\* the student's recorded payments sum to exactly half of a positive fee
HalfPaid(s) == FeeOf(s.course_id) > 0 /\ 2 * PaidBy(s.id) = FeeOf(s.course_id)

\* the statuses the three routes derive for the student
RouteStatuses(s) ==
    {ListFeesStatus(s.payment_status, PaidBy(s.id), FeeOf(s.course_id)),
     FeeDetailStatus(PaidBy(s.id), FeeOf(s.course_id)),
     CollectStatus(PaidBy(s.id), FeeOf(s.course_id))}

\* C9 as stated: for a student whose recorded payments sum to exactly 50% of
\* a positive course fee (stored status not "Paid") the three routes do not
\* derive the same status: one derives "Partial" while another derives
\* "Pending".
C9_Original ==
    \A s \in students :
        (HalfPaid(s) /\ s.payment_status # "Paid") =>
            ("Partial" \in RouteStatuses(s) /\ "Pending" \in RouteStatuses(s))

\* C9 as amended: for a student whose recorded payments sum to exactly 50% of
\* a positive course fee (stored status not "Paid") list_fees, fee_detail and
\* collect_payment all derive "Partial".
C9_HalfIsPartial ==
    \A s \in students :
        HalfPaid(s) =>
            /\ s.payment_status # "Paid" => RouteStatuses(s) = {"Partial"}
            /\ \A status \in Statuses : Derived(s.id, status) => status = "Partial"

\* a payment of 50 was collected on a fee of 100 and "Partial" was stored
C9_Witness ==
    /\ req.handler = "collect_payment"
    /\ req.resp = RedirectResponse("/fees")
    /\ \E s \in students :
          /\ s.id = req.args.student_id
          /\ HalfPaid(s)
          /\ s.payment_status = "Partial"

----------------------------------------------------------------------------
(* Uploads: institute 1 has a faculty member and a course and adds materials *)

MaxFiles == 3

\* The state after the three institute admins signed up, the first two
\* completed their profiles, and institute 1 added a faculty member and a
\* course.
InitUpload ==
    /\ ThreeAdmins
    /\ faculties = {[id |-> 1, institute_id |-> 1, name |-> "n1", batch |-> {}]}
    /\ courses = {[id |-> 2, institute_id |-> 1, name |-> "n1", fee |-> 100]}
    /\ students = {}
    /\ payments = {}
    /\ tests = {}
    /\ attendance = {}
    /\ materials = {}
    /\ events = {}
    /\ files = {}
    /\ nextId = 3
    /\ req = NoReq
    /\ proc = <<>>

\* file sizes in bytes, on both sides of the per-file limit
Sizes == {1, MAX_FILE_SIZE, MAX_FILE_SIZE + 1}

\* a file with an accepted extension in every size, and an oversize file with
\* an extension that is not accepted (it is skipped before its size is read)
UploadFiles ==
    [filename : {NotesPdf}, size : Sizes]
        \cup [filename : {ToolExe}, size : {MAX_FILE_SIZE + 1}]

\* files: list[UploadFile] = File(...): one to MaxFiles files
UploadLists == UNION {[1 .. n -> UploadFiles] : n \in 1 .. MaxFiles}

\* the blob store and the materials may grow by MaxFiles documents
UploadCanInsert(n) == nextId + n <= 3 + MaxFiles

NextUpload ==
    \/ \E c \in Editors, course \in Known(courses), faculty_id \in Known(faculties),
          uploads \in UploadLists :
            UploadCanInsert(Len(uploads))
                /\ add_material(c, "n1", course, faculty_id, uploads)
    \/ \E c \in Editors, material_id \in Known(materials) :
            delete_material(c, material_id)

SpecUpload == InitUpload /\ [][NextUpload]_vars

\* the uploaded file's extension is one add_material accepts
Accepted(file) == lower(splitext(file.filename)) \in ALLOWED_EXTENSIONS

RECURSIVE AcceptedBytes(_)
\* the sizes of the accepted-extension files of a request, added up
AcceptedBytes(uploads) ==
    IF uploads = <<>> THEN 0
    ELSE (IF Accepted(Head(uploads)) THEN Head(uploads).size ELSE 0)
            + AcceptedBytes(Tail(uploads))

RECURSIVE ListedBytes(_)
\* the file_size entries of a material's files, added up
ListedBytes(entries) ==
    IF entries = <<>> THEN 0
    ELSE Head(entries).file_size + ListedBytes(Tail(entries))

RECURSIVE BlobBytes(_)
\* the lengths of a set of blobs, added up
BlobBytes(blobs) ==
    IF blobs = {} THEN 0
    ELSE LET b == CHOOSE x \in blobs : TRUE IN b.length + BlobBytes(blobs \ {b})

FiveMB == 5 * 1024 * 1024
TenMB == 10 * 1024 * 1024

\* C10: after a successful POST /material/add every file stored for the
\* created material is at most 5 MB and the files stored by the request total
\* at most 10 MB; a request that contains an accepted-extension file larger
\* than 5 MB, or whose accepted files cumulatively exceed 10 MB, creates no
\* material document.
C10_UploadLimits ==
    [][req'.handler = "add_material" =>
        /\ \A m \in materials' \ materials :
              /\ \A i \in DOMAIN m.files :
                    /\ m.files[i].file_size <= FiveMB
                    /\ \E b \in files' \ files :
                          b.id = m.files[i].file_id /\ b.length <= FiveMB
              /\ ListedBytes(m.files) <= TenMB
              /\ BlobBytes(files' \ files) <= TenMB
        /\ ( \/ \E i \in DOMAIN req'.args.files :
                    /\ Accepted(req'.args.files[i])
                    /\ req'.args.files[i].size > FiveMB
             \/ AcceptedBytes(req'.args.files) > TenMB )
           => materials' = materials
      ]_vars

\* a material was created from two files of exactly 5 MB each, sent together
\* with an oversize file whose extension is not accepted
C10_Witness ==
    /\ req.handler = "add_material"
    /\ \E i \in DOMAIN req.args.files :
          ~Accepted(req.args.files[i]) /\ req.args.files[i].size > FiveMB
    /\ \E m \in materials :
          /\ m.id = nextId - 1
          /\ Len(m.files) = 2
          /\ ListedBytes(m.files) = TenMB

----------------------------------------------------------------------------
(* Deleting students who have payments: institute 1 has a course and two    *)
(* students, both institutes' admins collect payments and delete students   *)

NextRemoval ==
    \/ \E c \in PeopleClients, student_id \in Known(students) :
            FeesCanInsert /\ collect_payment(c, student_id, 50)
    \/ \E c \in PeopleClients, student_id \in IdsOf(students) :
            delete_student(c, student_id)

SpecRemoval == InitFees /\ [][NextRemoval]_vars

\* C11: a delete_student request by the admin of the student's institute
\* removes the student and every payment record with that student_id, and
\* nothing else; a request naming a student that does not exist or belongs to
\* another institute is answered 404 and deletes no student and no payment.
C11_DeleteStudent ==
    [][(/\ req'.handler = "delete_student"
        /\ ~NotInstituteAdmin(req'.client)
        /\ InstituteIndex(req'.client) # 0) =>
        LET sid == req'.args.student_id
            iid == CallerInstitute(req'.client)
        IN  IF \E s \in students : s.id = sid /\ s.institute_id = iid
            THEN /\ req'.resp = RedirectResponse("/students")
                 /\ students' = {s \in students : s.id # sid}
                 /\ \A p \in payments' : p.student_id # sid
                 /\ payments' = {p \in payments : p.student_id # sid}
            ELSE /\ req'.resp = HTTPException("404", "Student not found")
                 /\ students' = students
                 /\ payments' = payments
      ]_vars

\* student 2 was deleted together with its payment while the payment of the
\* other student stayed
C11_Witness ==
    /\ req.handler = "delete_student"
    /\ req.resp = RedirectResponse("/students")
    /\ req.args.student_id = 2
    /\ nextId = 6
    /\ \E p \in payments : p.student_id = 3
    /\ Cardinality(payments) = 1


----------------------------------------------------------------------------
(* Sessions: sign-up, login, logout, profile completion and the dashboards *)

\* institute_dashboard: the counts and lists it renders are read only
institute_dashboard(c) ==
    Reply("institute_dashboard", c, <<>>,
          IF NotInstituteAdmin(c) THEN RedirectResponse("/")
          ELSE IF InstituteIndex(c) = 0 THEN HTTPException("400", "Institute not found")
          ELSE TemplateResponse("institute_dashboard.html", ""))

admin_dashboard(c) ==
    Reply("admin_dashboard", c, <<>>,
          IF session[c] = NoUser \/ session[c].role # "platform_admin"
          THEN RedirectResponse("/")
          ELSE TemplateResponse("admin_dashboard.html", ""))

\* Accounts the session runs create: at most MaxUsers of them
MaxUsers == 2
SessionEmails == {e \in KnownOrNextEmail : e <= MaxUsers}

NextSession ==
    \/ \E c \in AuthClients, role \in Roles, email \in SessionEmails :
            signup_user(c, role, email, "pw")
    \/ \E c \in AuthClients, email \in SessionEmails, password \in Passwords,
          role \in Roles :
            login_manual(c, email, password, role)
    \/ \E c \in AuthClients, email \in SessionEmails : auth_callback(c, email)
    \/ \E c \in AuthClients : logout(c)
    \/ \E c \in AuthClients : index(c)
    \/ \E c \in AuthClients : complete_profile(c)
    \/ \E c \in AuthClients : institute_dashboard(c)
    \/ \E c \in AuthClients : admin_dashboard(c)

SpecSession == Init /\ [][NextSession]_vars

SessionOpeners == {"signup_user", "login_manual", "auth_callback"}

\* C12: GET /logout leaves the session without a user; a session without a user
\* gets one only from a sign-up, manual login or OAuth callback of that browser
\* that answers with a redirect; and while the session has no user, GET / shows
\* index.html and both dashboards redirect to "/".
C12_LoggedOut ==
    [][ /\ req'.handler = "logout" => session'[req'.client] = NoUser
        /\ \A c \in Clients :
              (session[c] = NoUser /\ session'[c] # NoUser) =>
                  /\ req'.client = c
                  /\ req'.handler \in SessionOpeners
                  /\ req'.resp.kind = "redirect"
        /\ (req'.handler = "index" /\ session[req'.client] = NoUser) =>
              req'.resp = TemplateResponse("index.html", "")
        /\ (req'.handler \in {"institute_dashboard", "admin_dashboard"}
              /\ session[req'.client] = NoUser) =>
              req'.resp = RedirectResponse("/") ]_vars

\* after a logout of an admin whose profile is complete, a dashboard was requested
C12_Witness ==
    /\ req.handler = "institute_dashboard"
    /\ req.resp = RedirectResponse("/")
    /\ session[req.client] = NoUser
    /\ \E i \in DOMAIN users : users[i].profile_complete


\* the page each role and profile status is sent to
Landing(role, done) ==
    IF role = "platform_admin" THEN "/admin-dashboard"
    ELSE IF done THEN "/institute-dashboard" ELSE "/complete-profile"

\* C13: a sign-up, manual login or OAuth callback that establishes a session
\* stores the user document's role and profile status in it and redirects to
\* the page of that role and status; GET / by a logged-in user redirects to
\* the page of the session user's role and status.
C13_RedirectByRole ==
    [][ LET c == req'.client IN
        /\ (req'.handler \in SessionOpeners /\ req'.resp.kind = "redirect") =>
              LET u == users'[FirstIndex({i \in DOMAIN users' :
                                            users'[i].email = req'.args.email})]
              IN  /\ session'[c] = SessionUser(u)
                  /\ u.role \in Roles
                  /\ req'.resp = RedirectResponse(Landing(u.role, u.profile_complete))
        /\ (req'.handler = "index" /\ session[c] # NoUser) =>
              req'.resp = RedirectResponse(
                    Landing(session[c].role, session[c].profile_complete)) ]_vars

\* an institute admin with a complete profile logged in or asked for "/" and
\* was sent to the dashboard, in a run that also saw a platform admin
C13_Witness ==
    /\ req.handler \in {"index", "login_manual", "auth_callback"}
    /\ req.resp = RedirectResponse("/institute-dashboard")
    /\ \E i \in DOMAIN users : users[i].role = "platform_admin"


UniqueEmails(us) ==
    \A i, j \in DOMAIN us : us[i].email = us[j].email => i = j

HasUser(email) == \E i \in DOMAIN users : users[i].email = email

\* the claim as written: every sign-up with a taken e-mail address answers
\* "User already exists!"
C14_Original ==
    [][ /\ UniqueEmails(users')
        /\ (req'.handler = "signup_user" /\ HasUser(req'.args.email)) =>
              /\ req'.resp = TemplateResponse("index.html", "User already exists!")
              /\ users' = users
              /\ session' = session ]_vars

\* C14: handled one at a time, sign-ups and OAuth callbacks never leave two
\* user documents with one e-mail address; a sign-up with a taken address
\* inserts no user and leaves the session alone, and answers "User already
\* exists!" unless it asks for platform_admin while two platform admins exist,
\* which gets the sign-up-blocked error instead.
C14_UniqueEmails ==
    [][ /\ UniqueEmails(users')
        /\ (req'.handler = "signup_user" /\ HasUser(req'.args.email)) =>
              /\ req'.resp = TemplateResponse("index.html",
                    IF req'.args.role = "platform_admin" /\ count_admins >= 2
                    THEN "Signup blocked: Only platform admins are allowed to access!"
                    ELSE "User already exists!")
              /\ users' = users
              /\ session' = session ]_vars

\* a sign-up with the address of a stored OAuth account was refused while
\* another user was logged in
C14_Witness ==
    /\ req.handler = "signup_user"
    /\ req.resp = TemplateResponse("index.html", "User already exists!")
    /\ session[req.client] # NoUser
    /\ session[req.client].email # req.args.email
    /\ \E i \in DOMAIN users :
          users[i].email = req.args.email /\ users[i].auth_type.list = <<"google">>


\* C15: POST /complete-profile by a logged-in institute admin leaves an
\* institute document with the admin's e-mail address, profile_complete true
\* in the admin's user document and in the session, and redirects to
\* /institute-dashboard; without an institute_admin in the session it redirects
\* to "/" and writes nothing.
C15_CompleteProfile ==
    [][ req'.handler = "complete_profile" =>
          LET c == req'.client
              user == session[c]
          IN  IF user # NoUser /\ user.role = "institute_admin"
              THEN /\ \E i \in DOMAIN institutes' :
                          institutes'[i].user_email = user.email
                   /\ \E i \in DOMAIN users' : users'[i].email = user.email
                   /\ \A i \in DOMAIN users' :
                          users'[i].email = user.email => users'[i].profile_complete
                   /\ session'[c] = [user EXCEPT !.profile_complete = TRUE]
                   /\ req'.resp = RedirectResponse("/institute-dashboard")
              ELSE /\ req'.resp = RedirectResponse("/")
                   /\ UNCHANGED <<db, session>> ]_vars

\* an admin who came in through OAuth completed the profile
C15_Witness ==
    /\ req.handler = "complete_profile"
    /\ req.resp = RedirectResponse("/institute-dashboard")
    /\ session[req.client].profile_complete
    /\ \E i \in DOMAIN users :
          /\ users[i].email = session[req.client].email
          /\ users[i].profile_complete
          /\ users[i].auth_type.list = <<"google">>
    /\ \E i \in DOMAIN institutes : institutes[i].user_email = session[req.client].email


----------------------------------------------------------------------------
(* Passwords: forgot_password and update_settings *)

\* generate_strong_password(): one of the strings the random choice can give
Generated == {"Gen1!", "Gen2!"}

NoMail == [to |-> 0, password |-> ""]

\* a message that leaves the password out
send_email_Blank(to_email, new_password) == [to |-> to_email, password |-> ""]

\* send_email: the message handed to the SMTP server
send_email(to_email, new_password) == [to |-> to_email, password |-> new_password]

\* the forgot_password.html page with its error or message; the mail that the
\* request handed to SMTP is recorded with the answer
ForgotPage(error, message, mail) ==
    [kind |-> "template", to |-> "forgot_password.html", error |-> error,
     message |-> message, mail |-> mail]

\* forgot_password; `delivered` is whether smtplib accepts the message, and a
\* failure there is an unhandled exception after the password was replaced
forgot_password(c, email, new_password, delivered) ==
    LET found == FirstIndex({k \in DOMAIN users :
                                /\ users[k].email = email
                                /\ "manual" \in Range(users[k].auth_type.list)})
        i == UserByEmail(email)
    IN
    /\ UnchangedData
    /\ UNCHANGED <<institutes, session>>
    /\ IF found = 0
       THEN /\ req' = Req("forgot_password", c, [email |-> email],
                    ForgotPage("No manual account found with this email.", "", NoMail))
            /\ UNCHANGED users
       ELSE /\ users' = [users EXCEPT ![i].password = hashpw(new_password)]
            /\ req' = Req("forgot_password", c, [email |-> email],
                    IF delivered
                    THEN ForgotPage("", "A new password has been sent to your email.",
                                    send_email(email, new_password))
                    ELSE [kind |-> "exception", to |-> "500", error |-> "SMTPException",
                          message |-> "", mail |-> NoMail])

\* user.get(key, default) on the dict kept in the session
SessionGet(user, key, default) == IF key \in DOMAIN user THEN user[key] ELSE default

\* update_settings; the institute fields it rewrites are not part of the model
update_settings(c, new_password) ==
    LET user == session[c]
        i == UserByEmail(user.email)
    IN
    /\ UnchangedData
    /\ UNCHANGED <<institutes, session>>
    /\ IF NotInstituteAdmin(c)
       THEN /\ req' = Req("update_settings", c, [new_password |-> new_password],
                          RedirectResponse("/"))
            /\ UNCHANGED users
       ELSE /\ users' = IF /\ new_password # ""
                           /\ "manual" \in Range(SessionGet(user, "auth_type", <<>>))
                           /\ i # 0
                        THEN [users EXCEPT ![i].password = hashpw(new_password)]
                        ELSE users
            /\ req' = Req("update_settings", c, [new_password |-> new_password],
                          RedirectResponse("/settings"))

\* The state after one admin signed up, completed the profile and logged out,
\* and a second one came in through OAuth and logged out.
InitPassword ==
    /\ users = <<ManualUser(1, "institute_admin", TRUE),
                 [email |-> 2, role |-> "institute_admin",
                  auth_type |-> [str |-> FALSE, list |-> <<"google">>],
                  profile_complete |-> FALSE]>>
    /\ institutes = <<[id |-> 1, user_email |-> 1]>>
    /\ session = [c \in Clients |-> NoUser]
    /\ students = {} /\ faculties = {} /\ courses = {} /\ payments = {}
    /\ tests = {} /\ attendance = {} /\ materials = {} /\ events = {}
    /\ files = {}
    /\ nextId = 1
    /\ req = NoReq
    /\ proc = <<>>

SettingsPasswords == {"", "s3cret"}
LoginPasswords == {"pw", "s3cret"} \cup Generated
StoredEmails == {users[i].email : i \in DOMAIN users}

NextPassword ==
    \/ \E c \in AuthClients, email \in Emails, new_password \in Generated,
          delivered \in BOOLEAN :
            forgot_password(c, email, new_password, delivered)
    \/ \E c \in AuthClients, new_password \in SettingsPasswords :
            update_settings(c, new_password)
    \/ \E c \in AuthClients, email \in StoredEmails, password \in LoginPasswords :
            login_manual(c, email, password, "institute_admin")
    \/ \E c \in AuthClients, email \in StoredEmails : auth_callback(c, email)
    \/ \E c \in AuthClients : logout(c)

SpecPassword == InitPassword /\ [][NextPassword]_vars

HasManual(email) ==
    \E i \in DOMAIN users :
        users[i].email = email /\ "manual" \in Range(users[i].auth_type.list)

\* C16: POST /forgot-password changes no user document of another e-mail
\* address; for an address without a manual account it answers with the error,
\* changes no user and sends no mail; and a mail it sends goes to the address
\* asked for and carries the password whose hash is stored afterwards.
C16_ForgotPassword ==
    [][ req'.handler = "forgot_password" =>
          LET email == req'.args.email
              mail == req'.resp.mail
          IN  /\ DOMAIN users' = DOMAIN users
              /\ \A i \in DOMAIN users : users[i].email # email => users'[i] = users[i]
              /\ IF HasManual(email)
                 THEN /\ req'.resp.kind = "template" =>
                            req'.resp = ForgotPage("",
                                "A new password has been sent to your email.", mail)
                      /\ req'.resp.message # "" => mail # NoMail
                      /\ mail # NoMail =>
                            /\ mail.to = email
                            /\ \A i \in DOMAIN users' :
                                  users'[i].email = email =>
                                      checkpw(mail.password, users'[i].password)
                 ELSE /\ req'.resp = ForgotPage(
                              "No manual account found with this email.", "", NoMail)
                      /\ users' = users ]_vars

\* an account with both manual and OAuth login was sent its second new password
C16_Witness ==
    /\ req.handler = "forgot_password"
    /\ req.resp.mail = [to |-> 1, password |-> "Gen2!"]
    /\ users[1].password = hashpw("Gen2!")
    /\ users[1].auth_type.list = <<"manual", "google">>


Occurrences(seq, x) == Cardinality({k \in DOMAIN seq : seq[k] = x})

\* C17: an OAuth callback for an e-mail address without a user document appends
\* exactly one user, with role institute_admin, auth_type ["google"] and
\* profile_complete false; for an address that has a user it inserts nothing,
\* keeps every user's role and profile_complete, and leaves "google" exactly
\* once in that user's auth_type list, at every repetition.
C17_GoogleCallback ==
    [][ req'.handler = "auth_callback" =>
          LET email == req'.args.email
              n == Len(users)
          IN  IF ~HasUser(email)
              THEN /\ Len(users') = n + 1
                   /\ \A i \in 1 .. n : users'[i] = users[i]
                   /\ users'[n + 1].email = email
                   /\ users'[n + 1].role = "institute_admin"
                   /\ users'[n + 1].auth_type = [str |-> FALSE, list |-> <<"google">>]
                   /\ users'[n + 1].profile_complete = FALSE
              ELSE /\ Len(users') = n
                   /\ \A i \in 1 .. n :
                         /\ users'[i].email = users[i].email
                         /\ users'[i].role = users[i].role
                         /\ users'[i].profile_complete = users[i].profile_complete
                         /\ users[i].email # email => users'[i] = users[i]
                         /\ users[i].email = email =>
                               /\ ~users'[i].auth_type.str
                               /\ Occurrences(users'[i].auth_type.list, "google") = 1 ]_vars

\* a callback for an account that OAuth created and that completed its profile
\* since: at least the second callback for that address
C17_Witness ==
    /\ req.handler = "auth_callback"
    /\ \E i \in DOMAIN users :
          /\ users[i].email = req.args.email
          /\ users[i].auth_type.list = <<"google">>
          /\ users[i].profile_complete
    /\ \E i \in DOMAIN users : users[i].auth_type.list = <<"manual", "google">>


\* C18: POST /settings with a non-empty new_password, by a logged-in institute
\* admin whose account has manual auth, leaves that password stored for the
\* account: it verifies against the stored hash afterwards, and the old one
\* does not unless it is the same.
C18_SettingsPassword ==
    [][ LET c == req'.client
            new_password == req'.args.new_password
        IN  ( /\ req'.handler = "update_settings"
              /\ ~NotInstituteAdmin(c)
              /\ HasManual(session[c].email)
              /\ new_password # "" ) =>
                \A i \in DOMAIN users' :
                    users'[i].email = session[c].email =>
                        /\ checkpw(new_password, users'[i].password)
                        /\ \A old \in LoginPasswords \ {new_password} :
                              ~checkpw(old, users'[i].password) ]_vars


----------------------------------------------------------------------------
(* Logins of platform admins when more than two are stored *)

\* The state after three platform_admin sign-ups, one from each browser, ran
\* together and all passed the count before any of them inserted.
InitAdmins ==
    /\ users = <<ManualUser(1, "platform_admin", FALSE),
                 ManualUser(2, "platform_admin", FALSE),
                 ManualUser(3, "platform_admin", FALSE)>>
    /\ institutes = <<>>
    /\ session = [c \in Clients |->
            IF c = "c1" THEN SessionUser(users[1])
            ELSE IF c = "c2" THEN SessionUser(users[2])
            ELSE SessionUser(users[3])]
    /\ students = {} /\ faculties = {} /\ courses = {} /\ payments = {}
    /\ tests = {} /\ attendance = {} /\ materials = {} /\ events = {}
    /\ files = {}
    /\ nextId = 1
    /\ req = NoReq
    /\ proc = <<>>

AdminClients == {"c3"}

NextAdmins ==
    \/ \E c \in AdminClients, email \in KnownOrNextEmail, password \in Passwords,
          role \in Roles :
            login_manual(c, email, password, role)
    \/ \E c \in AdminClients, email \in KnownOrNextEmail : auth_callback(c, email)
    \/ \E c \in AdminClients : logout(c)
    \/ \E c \in AdminClients : admin_dashboard(c)

SpecAdmins == InitAdmins /\ [][NextAdmins]_vars

\* the e-mail addresses of the first two platform_admin documents
FirstTwoAdmins(us) ==
    {us[i].email : i \in {k \in DOMAIN us :
        /\ us[k].role = "platform_admin"
        /\ Cardinality({m \in 1 .. (k - 1) : us[m].role = "platform_admin"}) < 2}}

\* a manual login with the right role and password, or any OAuth callback
Authenticated(r) ==
    \/ r.handler = "auth_callback"
    \/ /\ r.handler = "login_manual"
       /\ \E i \in DOMAIN users :
             /\ users[i].email = r.args.email
             /\ users[i].role = r.args.role
             /\ "manual" \in Range(users[i].auth_type.list)
             /\ checkpw(r.args.password, users[i].password)

\* C19: an authenticated manual login or OAuth callback of a platform_admin
\* user puts that user in the session and redirects to /admin-dashboard when
\* the user's e-mail address is among the first two platform_admin documents,
\* and otherwise renders an access-denied error and leaves the session alone.
C19_FirstTwoAdmins ==
    [][ \A i \in DOMAIN users :
          ( /\ Authenticated(req')
            /\ users[i].email = req'.args.email
            /\ users[i].role = "platform_admin" ) =>
              IF users[i].email \in FirstTwoAdmins(users')
              THEN /\ session'[req'.client] = SessionUser(users[i])
                   /\ req'.resp = RedirectResponse("/admin-dashboard")
              ELSE /\ req'.resp \in
                        {TemplateResponse("index.html",
                            "Access denied: Only platform admins allowed to access."),
                         TemplateResponse("index.html",
                            "Access denied: Only 2 platform admins allowed.")}
                   /\ session' = session ]_vars

\* the third platform admin, still logged in from the sign-up, was refused a
\* manual login
C19_Witness ==
    /\ req.handler = "login_manual"
    /\ req.args.email = 3
    /\ req.resp = TemplateResponse("index.html",
            "Access denied: Only platform admins allowed to access.")
    /\ session[req.client] = SessionUser(users[3])
    /\ count_admins = 3


----------------------------------------------------------------------------
(* POST /fees/payment/collect requests in flight together, one database     *)
(* operation a step                                                         *)

CollectIdle ==
    [pc |-> "idle", student_id |-> 0, amount |-> 0, course_id |-> 0,
     total_fee |-> 0, paid_amount |-> 0]

CollectUnchanged ==
    UNCHANGED <<users, institutes, session, faculties, courses, tests,
                attendance, materials, events, files>>

CollectDone(p, resp) ==
    /\ proc' = [proc EXCEPT ![p].pc = "done"]
    /\ req' = Req("collect_payment", ClientOf(p),
                  [student_id |-> proc[p].student_id, amount |-> proc[p].amount], resp)

\* the request arrives, passes the session and institute tests and runs
\* db["payments"].insert_one(payment_doc)
CollectInsert(p, student_id, amount) ==
    LET c == ClientOf(p)
        args == [student_id |-> student_id, amount |-> amount]
    IN
    /\ proc[p].pc = "idle"
    /\ CollectUnchanged
    /\ UNCHANGED students
    /\ IF NotInstituteAdmin(c) \/ InstituteIndex(c) = 0
       THEN /\ proc' = [proc EXCEPT ![p] =
                    [CollectIdle EXCEPT !.pc = "done", !.student_id = student_id,
                                        !.amount = amount]]
            /\ req' = Req("collect_payment", c, args,
                    IF NotInstituteAdmin(c) THEN RedirectResponse("/")
                    ELSE HTTPException("400", "Institute not found"))
            /\ UNCHANGED <<payments, nextId>>
       ELSE /\ payments' = payments \cup
                    {[id |-> nextId, institute_id |-> InstituteId(c),
                      student_id |-> student_id, amount |-> amount]}
            /\ nextId' = nextId + 1
            /\ proc' = [proc EXCEPT ![p] =
                    [CollectIdle EXCEPT !.pc = "student", !.student_id = student_id,
                                        !.amount = amount]]
            /\ UNCHANGED req

\* student = db["students"].find_one({"_id": ObjectId(student_id)})
CollectFindStudent(p) ==
    LET matched == DocsById(students, proc[p].student_id)
    IN
    /\ proc[p].pc = "student"
    /\ CollectUnchanged
    /\ UNCHANGED <<students, payments, nextId>>
    /\ IF matched = {}
       THEN CollectDone(p, HTTPException("404", "Student not found"))
       ELSE /\ proc' = [proc EXCEPT ![p].pc = "course",
                                    ![p].course_id = TheDoc(matched).course_id]
            /\ UNCHANGED req

\* course = db["courses"].find_one(...); total_fee = course["fee"] if course else 0
CollectFindCourse(p) ==
    /\ proc[p].pc = "course"
    /\ CollectUnchanged
    /\ UNCHANGED <<students, payments, nextId, req>>
    /\ proc' = [proc EXCEPT ![p].pc = "payments",
                            ![p].total_fee = TotalFee(proc[p].course_id)]

\* payments = list(db["payments"].find({"student_id": student_id})) and its sum
CollectFindPayments(p) ==
    /\ proc[p].pc = "payments"
    /\ CollectUnchanged
    /\ UNCHANGED <<students, payments, nextId, req>>
    /\ proc' = [proc EXCEPT ![p].pc = "update",
                            ![p].paid_amount = SumAmounts(PaymentsOf(proc[p].student_id))]

\* db["students"].update_one({"_id": ...}, {"$set": {"payment_status": status}})
\* with the status of the sum read before, and the redirect
CollectUpdate(p) ==
    LET status == CollectStatus(proc[p].paid_amount, proc[p].total_fee)
    IN
    /\ proc[p].pc = "update"
    /\ CollectUnchanged
    /\ UNCHANGED <<payments, nextId>>
    /\ students' = {IF d.id = proc[p].student_id
                    THEN [d EXCEPT !.payment_status = status] ELSE d : d \in students}
    /\ CollectDone(p, RedirectResponse("/fees"))

InitCollect ==
    /\ ThreeAdmins
    /\ courses = {[id |-> 1, institute_id |-> 1, name |-> "n1", fee |-> 100]}
    /\ students = {[id |-> 2, course_id |-> 1, course_name |-> "n1",
                    payment_status |-> "Pending", institute_id |-> 1],
                   [id |-> 3, course_id |-> 1, course_name |-> "n1",
                    payment_status |-> "Pending", institute_id |-> 1]}
    /\ faculties = {} /\ payments = {} /\ tests = {} /\ attendance = {}
    /\ materials = {} /\ events = {} /\ files = {}
    /\ nextId = 4
    /\ req = NoReq
    /\ proc = [p \in Procs |-> CollectIdle]

\* every request is for the student with _id 2
NextCollect ==
    \/ \E p \in Procs, amount \in Amounts : CollectInsert(p, 2, amount)
    \/ \E p \in Procs : CollectFindStudent(p)
    \/ \E p \in Procs : CollectFindCourse(p)
    \/ \E p \in Procs : CollectFindPayments(p)
    \/ \E p \in Procs : CollectUpdate(p)

SpecCollect == InitCollect /\ [][NextCollect]_vars

\* C20: when no POST /fees/payment/collect request is in flight, every student
\* with payment records has the stored payment_status that collect_payment
\* derives from the sum of all of that student's payment records.
C20_SettledStatus ==
    (\A p \in Procs : proc[p].pc \in {"idle", "done"}) =>
        \A s \in students :
            PaymentsOf(s.id) # {} =>
                s.payment_status =
                    CollectStatus(SumAmounts(PaymentsOf(s.id)), TotalFee(s.course_id))


----------------------------------------------------------------------------
(* Materials and the blob store: add, update and delete one at a time *)

\* files: list[UploadFile] = File(None) of update_material: none or one file
UpdateLists == {<<>>} \cup {<<f>> : f \in UploadFiles}

\* form.getlist("remove_files"): file names ticked for removal
RemoveLists == SUBSET {NotesPdf}

NextMaterial ==
    \/ \E c \in Editors, course \in Known(courses), faculty_id \in Known(faculties),
          uploads \in UploadLists :
            UploadCanInsert(Len(uploads))
                /\ add_material(c, "n1", course, faculty_id, uploads)
    \/ \E c \in Editors, material_id \in Known(materials), course \in Known(courses),
          remove_files \in RemoveLists, uploads \in UpdateLists :
            UploadCanInsert(Len(uploads))
                /\ update_material(c, material_id, "n1", course, remove_files, uploads)
    \/ \E c \in Editors, material_id \in Known(materials) :
            delete_material(c, material_id)

SpecMaterial == InitUpload /\ [][NextMaterial]_vars

\* C21: every file_id listed in a material document is the id of a file in the
\* blob store.
C21_ListedFilesExist ==
    \A m \in materials : \A k \in DOMAIN m.files :
        \E b \in files : b.id = m.files[k].file_id


\* C22: every student's course_id is the id of a course of the student's
\* institute, and the student's course_name is that course's name.
C22_StudentCourse ==
    \A s \in students :
        \E course_doc \in courses :
            /\ course_doc.id = s.course_id
            /\ course_doc.institute_id = s.institute_id
            /\ course_doc.name = s.course_name


----------------------------------------------------------------------------
(* Reports: the top-performers list of GET /reports *)

\* datetime.datetime.today() of the run examined
today == [year |-> 2026, month |-> 11, day |-> 20]

NoDate == [ok |-> FALSE, year |-> 0, month |-> 0, day |-> 0]

\* datetime.datetime.strptime(s, "%Y-%m-%d") on the scheduled_date strings
\* the forms send here; ok is FALSE where it raises
strptime(s) ==
    IF s = "2026-10-15" THEN [ok |-> TRUE, year |-> 2026, month |-> 10, day |-> 15]
    ELSE IF s = "2026-11-15" THEN [ok |-> TRUE, year |-> 2026, month |-> 11, day |-> 15]
    ELSE IF s = "2026-12-15" THEN [ok |-> TRUE, year |-> 2026, month |-> 12, day |-> 15]
    ELSE NoDate

\* a < b on datetime values
DateLess(a, b) ==
    \/ a.year < b.year
    \/ a.year = b.year /\ a.month < b.month
    \/ a.year = b.year /\ a.month = b.month /\ a.day < b.day

\* datetime.datetime(today.year, today.month, 1)
current_month_start == [ok |-> TRUE, year |-> today.year, month |-> today.month, day |-> 1]

\* the scheduled_date strings in ascending string order
DateStrings == <<"2026-10-15", "2026-11-15", "2026-12-15", "d1", "soon">>

StringRank(s) == FirstIndex({i \in DOMAIN DateStrings : DateStrings[i] = s})

RECURSIVE SortedTests(_)
\* find(...).sort("scheduled_date", -1): descending by the string, documents
\* with equal dates in insertion order
SortedTests(docs) ==
    IF docs = {} THEN <<>>
    ELSE LET first == CHOOSE d \in docs : \A e \in docs :
                        \/ StringRank(d.scheduled_date) > StringRank(e.scheduled_date)
                        \/ /\ StringRank(d.scheduled_date) = StringRank(e.scheduled_date)
                           /\ d.id <= e.id
         IN  <<first>> \o SortedTests(docs \ {first})

RemoveAt(seq, i) == SubSeq(seq, 1, i - 1) \o SubSeq(seq, i + 1, Len(seq))

\* seq[:n]
Take(seq, n) == SubSeq(seq, 1, IF Len(seq) < n THEN Len(seq) ELSE n)

RECURSIVE SortByMarks(_)
\* sorted(entries, key=marks, reverse=True): stable, highest marks first
SortByMarks(entries) ==
    IF entries = <<>> THEN <<>>
    ELSE LET i == FirstIndex({k \in DOMAIN entries :
                    \A j \in DOMAIN entries : entries[k].marks >= entries[j].marks})
         IN  <<entries[i]>> \o SortByMarks(RemoveAt(entries, i))

RECURSIVE SortByPercentage(_)
\* sorted(top_performers, key=percentage, reverse=True)
SortByPercentage(entries) ==
    IF entries = <<>> THEN <<>>
    ELSE LET i == FirstIndex({k \in DOMAIN entries :
                    \A j \in DOMAIN entries :
                        entries[k].percentage >= entries[j].percentage})
         IN  <<entries[i]>> \o SortByPercentage(RemoveAt(entries, i))

\* round(marks_obtained / total_marks * 100, 2) if total_marks > 0 else 0, as a
\* whole number of hundredths of a percent, halves rounded to even
Percentage(marks_obtained, total_marks) ==
    IF total_marks > 0
    THEN LET n == marks_obtained * 10000
             q == n \div total_marks
             r == n % total_marks
         IN  IF 2 * r > total_marks THEN q + 1
             ELSE IF 2 * r < total_marks THEN q
             ELSE IF q % 2 = 0 THEN q ELSE q + 1
    ELSE 0

\* the entries one test contributes; course_name is read by _id alone, and
\* test_id is kept with each entry to tell the tests apart
TestPerformers(test) ==
    LET top == Take(SortByMarks(test.students), 2)
    IN  [k \in DOMAIN top |->
            [test_id |-> test.id,
             course_name |-> IF DocsById(courses, test.course_id) = {}
                             THEN "Unknown Course"
                             ELSE TheDoc(DocsById(courses, test.course_id)).name,
             test_title |-> test.title,
             marks_obtained |-> top[k].marks,
             total_marks |-> test.total_marks,
             percentage |-> Percentage(top[k].marks, test.total_marks),
             scheduled_date |-> strptime(test.scheduled_date)]]

RECURSIVE CollectPerformers(_)
\* the loop over tests_cursor
CollectPerformers(cursor) ==
    IF cursor = <<>> THEN <<>>
    ELSE LET test == Head(cursor)
             test_date == strptime(test.scheduled_date)
         IN  IF ~test_date.ok THEN CollectPerformers(Tail(cursor))
             ELSE IF DateLess(test_date, current_month_start)
             THEN CollectPerformers(Tail(cursor))
             ELSE TestPerformers(test) \o CollectPerformers(Tail(cursor))

top_performers(institute_id) ==
    Take(SortByPercentage(CollectPerformers(SortedTests(
            {t \in tests : t.institute_id = institute_id /\ t.status = "Completed"}))),
         10)

ReportsPage(performers) ==
    [kind |-> "template", to |-> "reports.html", error |-> "",
     top_performers |-> performers]

\* GET /reports, as far as the top-performers list goes
institute_reports(c) ==
    Reply("institute_reports", c, <<>>,
          IF NotInstituteAdmin(c) THEN RedirectResponse("/")
          ELSE IF InstituteIndex(c) = 0 THEN HTTPException("400", "Institute not found")
          ELSE ReportsPage(top_performers(InstituteId(c))))


\* a test of institute 1 on course 1, held and marked for students 2 and 3
MarkedTest(id, first, second) ==
    [id |-> id, institute_id |-> 1, course_id |-> 1, title |-> "n1",
     total_marks |-> 100, scheduled_date |-> "2026-11-15", status |-> "Completed",
     students |-> <<[student_id |-> 2, marks |-> first],
                    [student_id |-> 3, marks |-> second]>>,
     marks_assigned |-> TRUE]

\* The state after institute 1 added a course and three students, held and
\* marked five tests this month and started a sixth, and institute 2 started a
\* test of its own.
InitReport ==
    /\ ThreeAdmins
    /\ courses = {[id |-> 1, institute_id |-> 1, name |-> "n1", fee |-> 100]}
    /\ students = {[id |-> i, course_id |-> 1, course_name |-> "n1",
                    payment_status |-> "Pending", institute_id |-> 1] : i \in 2 .. 4}
    /\ tests = {MarkedTest(5, 50, 55), MarkedTest(6, 60, 65), MarkedTest(7, 70, 75),
                MarkedTest(8, 80, 85), MarkedTest(9, 90, 95),
                [id |-> 10, institute_id |-> 1, course_id |-> 1, title |-> "n2",
                 total_marks |-> 100, scheduled_date |-> "2026-11-15",
                 status |-> "Ongoing",
                 students |-> <<[student_id |-> 2, marks |-> 0],
                                [student_id |-> 3, marks |-> 0],
                                [student_id |-> 4, marks |-> 0]>>,
                 marks_assigned |-> FALSE],
                [id |-> 11, institute_id |-> 2, course_id |-> 1, title |-> "n2",
                 total_marks |-> 100, scheduled_date |-> "2026-11-15",
                 status |-> "Ongoing",
                 students |-> <<[student_id |-> 2, marks |-> 99]>>,
                 marks_assigned |-> TRUE]}
    /\ faculties = {} /\ payments = {} /\ attendance = {} /\ materials = {}
    /\ events = {} /\ files = {}
    /\ nextId = 12
    /\ req = NoReq
    /\ proc = <<>>

ReportDates == {"2026-10-15", "2026-11-15", "2026-12-15", "soon"}
ReportTotals == {0, 30, 100}
ReportMarks ==
    {[i \in 2 .. 4 |-> 10], [i \in 2 .. 4 |-> IF i = 3 THEN 98 ELSE 97],
     [i \in 2 .. 4 |-> 10 * i]}

NextReport ==
    \/ \E c \in Editors, total_marks \in ReportTotals, scheduled_date \in ReportDates :
            update_test(c, 10, 1, "n2", total_marks, scheduled_date)
    \/ \E c \in Editors, data \in ReportMarks : save_edited_marks(c, 10, data)
    \/ \E c \in Editors, test_id \in {10, 11} : end_test(c, test_id)
    \/ \E c \in Editors : delete_test(c, 5)
    \/ \E c \in Clients : institute_reports(c)

SpecReport == InitReport /\ [][NextReport]_vars

ReportShown == req.handler = "institute_reports" /\ req.resp.kind = "template"

InCurrentMonth(s) ==
    /\ strptime(s).ok
    /\ strptime(s).year = today.year
    /\ strptime(s).month = today.month

\* every entry comes from a Completed test of the caller's institute
FromOwnCompleted(listed) ==
    \A k \in DOMAIN listed : \E t \in tests :
        /\ t.id = listed[k].test_id
        /\ t.institute_id = CallerInstitute(req.client)
        /\ t.status = "Completed"

\* every entry comes from a test scheduled in the current month
FromCurrentMonth(listed) ==
    \A k \in DOMAIN listed : \E t \in tests :
        t.id = listed[k].test_id /\ InCurrentMonth(t.scheduled_date)

\* at most two entries a test, each with one of the two highest marks of it
TwoHighest(listed) ==
    \A t \in tests :
        LET own == {k \in DOMAIN listed : listed[k].test_id = t.id}
        IN  /\ Cardinality(own) <= 2
            /\ \A k \in own :
                  /\ \E i \in DOMAIN t.students :
                        t.students[i].marks = listed[k].marks_obtained
                  /\ Cardinality({i \in DOMAIN t.students :
                        t.students[i].marks > listed[k].marks_obtained}) < 2
                  /\ Cardinality({j \in own :
                        listed[j].marks_obtained = listed[k].marks_obtained})
                     <= Cardinality({i \in DOMAIN t.students :
                        t.students[i].marks = listed[k].marks_obtained})

NonIncreasing(listed) ==
    \A j, k \in DOMAIN listed : j < k => listed[j].percentage >= listed[k].percentage

ZeroForNoTotal(listed) ==
    \A k \in DOMAIN listed : listed[k].total_marks = 0 => listed[k].percentage = 0

\* C23: the top-performers list of the report holds only entries of Completed
\* tests of the caller's institute scheduled in the current month, at most two
\* a test and those with its two highest marks, in order of non-increasing
\* percentage, at most 10 of them, with percentage 0 where total_marks is 0.
C23_TopPerformers ==
    ReportShown =>
        LET listed == req.resp.top_performers
        IN  /\ FromOwnCompleted(listed)
            /\ FromCurrentMonth(listed)
            /\ TwoHighest(listed)
            /\ NonIncreasing(listed)
            /\ Len(listed) <= 10
            /\ ZeroForNoTotal(listed)

====
